---- MODULE Spec2Model ----
(***************************************************************************)
(* HomeLogger: the log-ingestion pipeline.                                 *)
(*                                                                         *)
(*   Spec          the file sink (modules/write_to_files.py, class Writer) *)
(*                 driven by sequential write_log / close / close_all      *)
(*                 calls, as modules/test_files.py drives it.              *)
(*   SpecConsumer  the consumer (rabbitmq/consumer.py): run_forever, the   *)
(*                 delivery callbacks of the log queue and of the service  *)
(*                 queue running as concurrent tasks, the three sinks.     *)
(*   SpecArchive   the file sink with archiving enabled.                   *)
(*   SpecLifecycle the consumer's start, reload, stop and shutdown with    *)
(*                 teardown steps that fail.                               *)
(*   SpecReload    the consumer across a reload that disables files.       *)
(*   SpecStall     the consumer with database inserts that stall.          *)
(*   SpecConfig    the config manager (config/config.py): the import over  *)
(*                 any config.json, subscribe, update_config.              *)
(*   SpecDatabase  the database client (databases/postgres_client.py).     *)
(*   SpecValidate  the consumer over bodies with an undeclared key.        *)
(*   SpecOverlap   the file sink with write_log calls that overlap.        *)
(*   SpecSignal    the reload path: PUT /config, the service callback and  *)
(*                 start; SpecSignalFair adds the event loop's fairness.   *)
(***************************************************************************)
EXTENDS Integers, Sequences, FiniteSets, TLC

\* ------------------------------------------------------------------ bounds
MaxWrites == 4          \* write_log calls of one run
MaxTicks == 2           \* advances of the wall clock in one run
MaxFaults == 1          \* I/O errors the environment injects in one run
MaxCloses == 2          \* close / close_all calls of one run
MaxMsgs == 2            \* messages published to the log queue
MaxDeliveries == 3      \* deliveries (redeliveries included) of one run
MaxInFlight == 11       \* deliveries of one run with stalled callbacks
MaxStallReturns == 1    \* database inserts that return in such a run
MaxReloads == 1         \* config updates published in one run
MaxRaises == 2          \* exceptions the database and console sinks raise in one run
RotationLines == 2      \* rotation.lines of the sample configurations
ArchiveCount == 1       \* archive.count of the sample configurations
LineBytes == 100        \* bytes of one formatted record line
MaxArchiveCalls == 3    \* write_log / check_old_logfile calls of one run with archiving
MaxOverlapCalls == 4    \* write_log calls of one run with overlapping calls
MaxArchiveCloses == 1   \* close_all calls of one run with archiving
MaxArchiveTicks == 1    \* advances of the wall clock in one run with archiving
MaxApplies == 2         \* update_config calls of one run of the config manager
MaxSubscribers == 2     \* callbacks subscribed to the config manager
MaxDbCalls == 3         \* calls made to the database client in one run
ShortInterval == 1      \* a reconnect interval set by add_timer_reconnect, minutes

\* ------------------------------------------------------- program constants
ProjectMaxLen == 100    \* MessageValidate.project, max_length
ModuleMaxLen == 100     \* MessageValidate.module, max_length
FunctionMaxLen == 100   \* MessageValidate.function, max_length
MessageMaxLen == 1000   \* MessageValidate.message, max_length
CodeMax == 999999       \* MessageValidate.code, le
ReloadCode == 100       \* the code of the reload signal
RotationTime == 3600    \* rotation.time, its least admitted value
RotationSize == 1024    \* rotation.size, its least admitted value
RotationDaily == 0      \* rotation.daily "00:00", as the minute of the day
ArchiveAge == 24400     \* archive.age, its least admitted value
HeaderBytes == 842      \* the header box: 2 border lines of 247 bytes, 4 of 87
FooterBytes == 843      \* the footer box: a newline, then the same box
ReconnectMinutes == 30  \* Client._reconnect_interval and the default of add_timer_reconnect

Day == 24 * 3600
Projects == {"p1", "p2"}
TzOffsets == {0, 3 * 3600}
StartLocal == 2 * Day - 1          \* the local wall clock at start: 23:59:59
\* the clock advances that matter to a trigger: within the second resolution
\* of the file name, past rotation.time, to the next day
TickSteps(trigger) ==
    CASE trigger = "time" -> {1, RotationTime}
      [] trigger = "daily" -> {1, Day}
      [] OTHER -> {1}

VARIABLES
    writers,             \* the Writer objects (write_to_files.py): id -> fields
                         \*   cfg          Writer.cfg, a ServerConfig.Files
                         \*   data         Writer._active_file_data
                         \*   handle       Writer._active_file_handle
                         \*   log_dir      the projects with a _log_dir entry
                         \*   archive_dir  the projects with an _archive_dir entry
    disk,                \* the *.log files on disk: path -> content, mtime
    archives,            \* the files of the archive directories
    clock,               \* the UTC clock, in seconds
    tz,                  \* local time - UTC, in seconds
    ticks,               \* clock advances so far
    faults,              \* injected I/O errors so far
    closes,              \* close / close_all calls so far
    calls,               \* the write_log activations: call id -> position
    nextCall,            \* the id of the next write_log call of the test driver
    nextWriter,          \* the id of the next Writer object
    \* --- RabbitMQConsumer (rabbitmq/consumer.py)
    config,              \* self.config
    console_client,      \* self._console_client is not None
    database_client,     \* self._database_client is not None
    files_client,        \* self._files_client: a Writer id, 0 for None
    connection,          \* self.connection is not None
    channel,             \* self.channel: an epoch, 0 for None
    consumer_tag,        \* self.consumer_tag is not None
    service_tag,         \* self.service_tag is not None
    running,             \* self._running
    restart_requested,   \* self._restart_requested
    main,                \* the run_forever task: its position
    shutdown,            \* the run_forever task has been cancelled
    \* --- ConfigManager (config/config.py) and the broker
    manager_config,      \* ConfigManager.config
    broker,              \* the broker's open channels and subscriptions
    queue,               \* the log queue: the ready messages, oldest first
    service_queue,       \* the service queue: the ready bodies
    msgs,                \* the bodies published to the log queue, by id
    acked,               \* the log messages the broker has an ack for
    deliv,               \* the delivery callbacks of the log queue
    nextDeliv,           \* the id of the next delivery
    reloads,             \* config updates published so far
    reload_data,         \* the "data" of the last reload signal the consumer took
    \* --- Manager and Config (config/config.py)
    config_file,         \* config.json: absent, not JSON, or a document
    notified,            \* the calls the subscribers' callbacks have received
    cm,                  \* the import of config.py and the update_config call:
                         \*   pc      boot, failed, idle, notify, save
                         \*   subs    len(Manager._callbacks)
                         \*   n       update_config calls so far
                         \*   data    new_config_data of the last call
                         \*   old     old_config of the last call
                         \*   oldfile config.json when the last call began
                         \*   mark    len(notified) when the last call began
                         \*   nsubs   len(Manager._callbacks) when it began
                         \*   i       the index of the next callback
                         \*   result  how the last call ended
    \* --- Client (databases/postgres_client.py)
    db,                  \* the client's fields, the server, the calls made
    \* --- the database sink (server/modules/write_to_database.py)
    database_models,     \* the module's dictionary: project -> the table model,
                         \*   named by the serial number of its generation
    generated,           \* generate_log_model calls so far
    db_clients           \* the LogClient objects the consumer's database sinks
                         \*   have created, oldest first:
                         \*   engine  the client holds an engine and its pool

writerVars == <<writers, disk, archives, clock, tz, ticks, faults, closes, calls,
                nextCall, nextWriter>>
managerVars == <<config_file, notified, cm>>
sinkVars == <<database_models, generated, db_clients>>
consumerVars == <<config, console_client, database_client, files_client, connection,
                  channel, consumer_tag, service_tag, running, restart_requested,
                  main, shutdown, manager_config, broker, queue, service_queue,
                  msgs, acked, deliv, nextDeliv, reloads,
                  reload_data, managerVars, db, sinkVars>>
vars == <<writerVars, consumerVars>>

\* ------------------------------------------------------------------ values
CallIds == 1..(IF MaxWrites > MaxDeliveries THEN MaxWrites ELSE MaxDeliveries)
DeliveryIds == 1..MaxInFlight
WriterIds == 1..(MaxReloads + 1)
NoPath == [project |-> "", stamp |-> 0]
Header == [k |-> "H", r |-> 0]
Line(r) == [k |-> "L", r |-> r]
Footer(n) == [k |-> "F", r |-> n]

Put(f, key, v) == [x \in DOMAIN f \cup {key} |-> IF x = key THEN v ELSE f[x]]
Drop(f, key) == [x \in DOMAIN f \ {key} |-> f[x]]
Max(S) == CHOOSE x \in S : \A y \in S : y <= x

\* datetime.now(): the naive local wall clock
LocalNow == clock + tz
DateOf(t) == t \div Day
MinuteOfDay(t) == (t % Day) \div 60

\* FileData(): path None, date_start the naive datetime.now() taken when the
\* class body was evaluated (the import of the module), count_lines 0.
FileData == [path |-> NoPath,
             date_start |-> [t |-> StartLocal, aware |-> FALSE],
             count_lines |-> 0]

IdleCall == [pc |-> "idle", writer |-> 0, project |-> "", phase |-> "", todo |-> <<>>,
             sweepNow |-> 0, arch |-> "none", ret |-> "none"]

\* The fields of Writer w and the file system, as one value the methods map.
WState(w) == [cfg |-> writers[w].cfg, data |-> writers[w].data,
              handle |-> writers[w].handle, log_dir |-> writers[w].log_dir,
              archive_dir |-> writers[w].archive_dir,
              disk |-> disk, archives |-> archives]

\* ------------------------------------------------------------- file system
NextRank(d) == IF DOMAIN d = {} THEN 1 ELSE 1 + Max({d[p].mrank : p \in DOMAIN d})

\* open(path, 'a'): creates the file when it does not exist
DiskOpen(d, path) ==
    IF path \in DOMAIN d THEN d
    ELSE Put(d, path, [content |-> <<>>, mtime |-> clock, mrank |-> NextRank(d)])

\* write through a handle on path: a handle whose file was unlinked writes
\* to an inode no directory names any more
DiskAppend(d, path, entry) ==
    IF path \in DOMAIN d
    THEN [d EXCEPT ![path] = [content |-> Append(@.content, entry),
                              mtime |-> clock,
                              mrank |-> IF @.mrank = Max({d[p].mrank : p \in DOMAIN d})
                                        THEN @.mrank ELSE NextRank(d)]]
    ELSE d

RECURSIVE SizeOf(_)
SizeOf(content) ==
    IF content = <<>> THEN 0
    ELSE SizeOf(Tail(content)) +
         (CASE Head(content).k = "H" -> HeaderBytes
            [] Head(content).k = "F" -> FooterBytes
            [] OTHER -> LineBytes)

\* ------------------------------------------------------------------ Writer
\* _create_directory: fail is "none", "log" (the first mkdir raises) or
\* "archive" (the second mkdir raises)
CreateDirectory(s, project, fail) ==
    [s EXCEPT !.log_dir = @ \cup {project},
              !.archive_dir = IF fail = "log" THEN @ ELSE @ \cup {project}]

\* _write_start_log
WriteStartLog(s, project) ==
    IF project \notin DOMAIN s.handle THEN s
    ELSE [s EXCEPT !.disk = DiskAppend(@, s.handle[project].path, Header)]

\* _write_end_log
WriteEndLog(s, project) ==
    IF project \notin DOMAIN s.handle THEN s
    ELSE LET d == s.data[project]
             footered == IF d.path # NoPath /\ d.path \in DOMAIN s.disk
                         THEN DiskAppend(s.disk, d.path, Footer(d.count_lines))
                         ELSE s.disk
         IN [s EXCEPT !.disk = DiskOpen(footered, d.path),
                      !.handle = Put(@, project, [path |-> d.path, closed |-> FALSE])]

\* _should_rotate: "yes", "no" or "raise"
ShouldRotate(s, project) ==
    LET d == s.data[project]
        now == LocalNow
    IN CASE s.cfg.rotation.trigger = "daily" ->
              IF MinuteOfDay(now) = s.cfg.rotation.daily
                 /\ DateOf(d.date_start.t) # DateOf(now)
              THEN "yes" ELSE "no"
         [] s.cfg.rotation.trigger = "time" ->
              \* naive datetime.now() minus an aware date_start: TypeError
              IF d.date_start.aware THEN "raise"
              ELSE IF now - d.date_start.t >= s.cfg.rotation.time THEN "yes" ELSE "no"
         [] s.cfg.rotation.trigger = "lines" ->
              IF d.count_lines >= s.cfg.rotation.lines THEN "yes" ELSE "no"
         [] s.cfg.rotation.trigger = "size" ->
              IF d.path = NoPath THEN "no"
              ELSE IF d.path \notin DOMAIN s.disk THEN "raise"
              ELSE IF SizeOf(s.disk[d.path].content) >= s.cfg.rotation.size
                   THEN "yes" ELSE "no"
         [] OTHER -> "no"

\* _open_new_file, lines 152-175: up to the header of the new file. openFail:
\* the mkdir of the parent or the open of line 168 raises.
OpenNewFile(s, project, openFail) ==
    LET s1 == IF project \in DOMAIN s.handle THEN WriteEndLog(s, project) ELSE s
        path == [project |-> project, stamp |-> LocalNow]
        s2 == [s1 EXCEPT !.data[project].path = path]
    IN IF project \notin s.log_dir THEN [s |-> s1, ok |-> FALSE]
       ELSE IF openFail THEN [s |-> s2, ok |-> FALSE]
       ELSE LET s3 == [s2 EXCEPT
                        !.disk = DiskOpen(@, path),
                        !.handle = Put(@, project, [path |-> path, closed |-> FALSE]),
                        !.data[project].count_lines = 0,
                        !.data[project].date_start = [t |-> clock, aware |-> TRUE]]
            IN [s |-> WriteStartLog(s3, project), ok |-> TRUE]

\* the *.log files of the project's directory
LogFiles(d, project) == {p \in DOMAIN d : p.project = project}

RECURSIVE SortedBy(_, _, _)
\* sorted(files, key): ascending by key, as a sequence
SortedBy(files, d, field) ==
    IF files = {} THEN <<>>
    ELSE LET f == CHOOSE x \in files :
                    \A y \in files : d[x][field] <= d[y][field] /\
                                     (d[x][field] = d[y][field] => x.stamp <= y.stamp)
         IN <<f>> \o SortedBy(files \ {f}, d, field)

RECURSIVE ByName(_)
ByName(files) ==
    IF files = {} THEN <<>>
    ELSE LET f == CHOOSE x \in files : \A y \in files : x.stamp <= y.stamp
         IN <<f>> \o ByName(files \ {f})

\* the count sweep hands one file to _archive_single_file, however many
\* files exceed archive.count
SweepCandidates_one_per_sweep(s, project) ==
    LET log_files == LogFiles(s.disk, project) \ {s.data[project].path}
    IN IF project \notin s.log_dir \/ project \notin s.archive_dir THEN <<>>
       ELSE IF s.cfg.archive.trigger = "count"
       THEN IF Cardinality(log_files) > s.cfg.archive.count
            THEN SubSeq(SortedBy(log_files, s.disk, "mrank"), 1, 1)
            ELSE <<>>
       ELSE IF s.cfg.archive.trigger = "age" THEN ByName(log_files)
       ELSE <<>>

\* check_old_logfile, lines 277-305: the files the sweep will hand to
\* _archive_single_file, in order. A project without _archive_dir entry
\* raises KeyError at line 279 and the sweep archives nothing.
SweepCandidates(s, project) ==
    LET log_files == LogFiles(s.disk, project) \ {s.data[project].path}
    IN IF project \notin s.log_dir \/ project \notin s.archive_dir THEN <<>>
       ELSE IF s.cfg.archive.trigger = "count"
       THEN IF Cardinality(log_files) > s.cfg.archive.count
            THEN SubSeq(SortedBy(log_files, s.disk, "mrank"), 1,
                        Cardinality(log_files) - s.cfg.archive.count)
            ELSE <<>>
       ELSE IF s.cfg.archive.trigger = "age" THEN ByName(log_files)
       ELSE <<>>

RECURSIVE NextCandidate(_, _, _)
\* the loop of lines 295-297 (count) or 302-305 (age) up to the next file
\* that reaches run_in_executor: a count candidate that no longer exists is
\* skipped (line 324), an age candidate that no longer exists raises in
\* stat() and ends the sweep, one that is young enough is skipped.
NextCandidate(s, todo, sweepNow) ==
    IF todo = <<>> THEN <<>>
    ELSE LET f == Head(todo)
         IN IF s.cfg.archive.trigger = "count"
            THEN IF f \in DOMAIN s.disk THEN todo
                 ELSE NextCandidate(s, Tail(todo), sweepNow)
            ELSE IF f \notin DOMAIN s.disk THEN <<>>
                 ELSE IF sweepNow - s.disk[f].mtime > s.cfg.archive.age THEN todo
                 ELSE NextCandidate(s, Tail(todo), sweepNow)

\* write_log, lines 211-227: format the record and append it. writeFail: the
\* write or the flush raises.
AppendStage(s, c, id, writeFail) ==
    IF c.project \notin DOMAIN s.handle
       \/ s.handle[c.project].closed
       \/ writeFail
    THEN [s |-> s, c |-> [c EXCEPT !.pc = "done", !.ret = "fail", !.todo = <<>>]]
    ELSE [s |-> [s EXCEPT !.disk = DiskAppend(@, s.handle[c.project].path, Line(id)),
                          !.data[c.project].count_lines = @ + 1],
          c |-> [c EXCEPT !.pc = "done", !.ret = "ok", !.todo = <<>>]]

\* _open_new_file, lines 177-181, called from write_log in the given phase
\* ("first": line 204, "rotate": line 208): the call is either suspended in
\* run_in_executor (pc "archiving", Head(todo) the file in the executor) or
\* has returned from _open_new_file (pc "opened").
OpenStage(s, c, phase, openFail) ==
    LET o == OpenNewFile(s, c.project, openFail)
        todo == IF o.ok /\ s.cfg.archive.enabled
                THEN NextCandidate(o.s, SweepCandidates(o.s, c.project), clock)
                ELSE <<>>
    IN [s |-> o.s,
        c |-> [c EXCEPT !.pc = IF todo = <<>> THEN "opened" ELSE "archiving",
                        !.phase = phase, !.todo = todo, !.sweepNow = clock,
                        !.arch = "none"]]

\* write_log, lines 206-227
RotateStage(s, c, id, fault) ==
    LET r == ShouldRotate(s, c.project)
    IN IF r = "raise"
       THEN [s |-> s, c |-> [c EXCEPT !.pc = "done", !.ret = "fail", !.todo = <<>>]]
       ELSE IF r = "yes"
       THEN LET o == OpenStage(s, c, "rotate", fault = "open")
            IN IF o.c.pc = "archiving" THEN o
               ELSE AppendStage(o.s, o.c, id, fault = "write")
       ELSE AppendStage(s, c, id, fault = "write")

\* write_log, lines 196-227, from its entry to its return or to its first
\* suspension
EntryStage(s, c, id, fault) ==
    IF c.project \notin DOMAIN s.handle
    THEN LET s1 == [s EXCEPT !.data = Put(@, c.project, FileData)]
             s2 == CreateDirectory(s1, c.project,
                                   IF fault = "mkdir_log" THEN "log"
                                   ELSE IF fault = "mkdir_archive" THEN "archive"
                                   ELSE "none")
             o == OpenStage(s2, c, "first", fault = "open")
         IN IF o.c.pc = "archiving" THEN o
            ELSE RotateStage(o.s, o.c, id, fault)
    ELSE RotateStage(s, c, id, fault)

\* _archive_single_file, do_archive (lines 334-350), run by the executor's
\* thread: zip opens (truncates) the archive before it reads the source, gz,
\* bz2 and xz open the source first, tar has no branch and writes nothing.
\* archiveFail: the write of the archive raises.
DoArchiveResult(s, f, archiveFail) ==
    LET name == [src |-> f, type |-> s.cfg.archive.type]
        there == f \in DOMAIN s.disk
        whole == [content |-> s.disk[f].content, complete |-> TRUE]
        partial == [content |-> <<>>, complete |-> FALSE]
    IN CASE s.cfg.archive.type = "tar" -> [archives |-> s.archives, arch |-> "ok"]
         [] s.cfg.archive.type = "zip" ->
              IF there /\ ~archiveFail
              THEN [archives |-> Put(s.archives, name, whole), arch |-> "ok"]
              ELSE [archives |-> Put(s.archives, name, partial), arch |-> "raise"]
         [] OTHER ->
              IF ~there THEN [archives |-> s.archives, arch |-> "raise"]
              ELSE IF archiveFail
              THEN [archives |-> Put(s.archives, name, partial), arch |-> "raise"]
              ELSE [archives |-> Put(s.archives, name, whole), arch |-> "ok"]

\* _archive_single_file, lines 352-360, then the rest of the sweep and of
\* write_log: the source is unlinked when do_archive returned, the loop goes
\* to the next candidate, and after the last one write_log continues.
ResumeStage(s, c, id, fault) ==
    LET f == Head(c.todo)
        s1 == IF c.arch = "ok" /\ f \in DOMAIN s.disk
              THEN [s EXCEPT !.disk = Drop(@, f)] ELSE s
        todo == NextCandidate(s1, Tail(c.todo), c.sweepNow)
    IN IF todo # <<>>
       THEN [s |-> s1, c |-> [c EXCEPT !.todo = todo, !.arch = "none"]]
       ELSE LET c1 == [c EXCEPT !.pc = "opened", !.todo = <<>>, !.arch = "none"]
            IN IF c.phase = "first" THEN RotateStage(s1, c1, id, fault)
               ELSE IF c.phase = "sweep"
               THEN [s |-> s1, c |-> [c1 EXCEPT !.pc = "done", !.ret = "ok"]]
               ELSE AppendStage(s1, c1, id, fault = "write")

\* check_old_logfile called on its own, from its entry to its return or to
\* its first suspension: a project without _log_dir or _archive_dir entry
\* raises KeyError (lines 278-279) and the method returns False
SweepStage(s, c) ==
    LET todo == NextCandidate(s, SweepCandidates(s, c.project), clock)
    IN IF c.project \notin s.log_dir \/ c.project \notin s.archive_dir
       THEN [s |-> s, c |-> [c EXCEPT !.pc = "done", !.phase = "sweep", !.ret = "fail"]]
       ELSE [s |-> s,
             c |-> [c EXCEPT !.pc = IF todo = <<>> THEN "done" ELSE "archiving",
                             !.phase = "sweep", !.todo = todo, !.sweepNow = clock,
                             !.arch = "none", !.ret = "ok"]]

\* the order in which the age loop meets the files is the order of
\* Path.glob, which the file system decides: any file of the rest of the
\* list that the loop would archive may be the next one
MoveToFront(todo, i) ==
    <<todo[i]>> \o SubSeq(todo, 1, i - 1) \o SubSeq(todo, i + 1, Len(todo))

GlobOrders(s, c) ==
    IF s.cfg.archive.trigger = "age"
    THEN {MoveToFront(c.todo, i) :
            i \in {j \in 1..Len(c.todo) :
                     /\ c.todo[j] \in DOMAIN s.disk
                     /\ c.sweepNow - s.disk[c.todo[j]].mtime > s.cfg.archive.age}}
    ELSE {c.todo}

\* close(project), lines 372-377
CloseProject(s, project) ==
    IF project \notin DOMAIN s.handle THEN s
    ELSE LET s1 == WriteEndLog(s, project)
         IN [s1 EXCEPT !.handle[project].closed = TRUE]

RECURSIVE CloseEach(_, _)
CloseEach(s, todo) ==
    IF todo = {} THEN s
    ELSE LET p == CHOOSE x \in todo : TRUE
         IN CloseEach(CloseProject(s, p), todo \ {p})

\* a close_all() that leaves the handles as they are
CloseAllProjects_leaves_open(s) == s

\* close_all(), lines 389-393
CloseAllProjects(s) == CloseEach(s, DOMAIN s.handle)


\* ------------------------------------------------- sample configurations
Rotations == {[trigger |-> t, time |-> RotationTime, daily |-> RotationDaily,
               size |-> RotationSize, lines |-> RotationLines]
              : t \in {"time", "size", "daily", "lines"}}
ArchiveOff == [enabled |-> FALSE, type |-> "zip", trigger |-> "count",
               count |-> ArchiveCount, age |-> ArchiveAge]
Archivings == {ArchiveOff} \cup
              {[enabled |-> TRUE, type |-> ty, trigger |-> tr,
                count |-> ArchiveCount, age |-> ArchiveAge]
               : ty \in {"zip", "gz", "bz2", "xz", "tar"}, tr \in {"count", "age"}}
FilesConfigs == {[enabled |-> TRUE, rotation |-> r, archive |-> a]
                 : r \in Rotations, a \in Archivings}

\* Writer.__init__
NewWriter(filesCfg) == [cfg |-> filesCfg, data |-> <<>>, handle |-> <<>>,
                        log_dir |-> {}, archive_dir |-> {}]
LinesRotation == CHOOSE r \in Rotations : r.trigger = "lines"
NoWriter == NewWriter([enabled |-> FALSE, rotation |-> LinesRotation,
                       archive |-> ArchiveOff])

FaultKinds == {"none", "mkdir_log", "mkdir_archive", "open", "write"}

\* ------------------------------------------------- the file sink's actions
Commit(w, s) ==
    /\ writers' = [writers EXCEPT ![w] = [cfg |-> s.cfg, data |-> s.data,
                                          handle |-> s.handle, log_dir |-> s.log_dir,
                                          archive_dir |-> s.archive_dir]]
    /\ disk' = s.disk
    /\ archives' = s.archives

NoCallActive == \A i \in CallIds : calls[i].pc \in {"idle", "done"}

\* the Writer the test driver constructs
TestWriter == 1

\* a caller awaits write_log({"project": p, ...}) after the previous call
\* has returned
WriteLog(p) ==
    /\ nextCall <= MaxWrites
    /\ NoCallActive
    /\ \E fault \in FaultKinds :
         LET c0 == [IdleCall EXCEPT !.project = p, !.writer = TestWriter]
             r == EntryStage(WState(TestWriter), c0, nextCall, fault)
         IN /\ fault # "none" =>
                 /\ faults < MaxFaults
                 /\ r # EntryStage(WState(TestWriter), c0, nextCall, "none")
            /\ Commit(TestWriter, r.s)
            /\ calls' = [calls EXCEPT ![nextCall] = r.c]
            /\ faults' = faults + IF fault = "none" THEN 0 ELSE 1
    /\ nextCall' = nextCall + 1
    /\ UNCHANGED <<clock, tz, ticks, closes, nextWriter, consumerVars>>

\* the executor's thread runs do_archive for the file the call waits for
DoArchive(id) ==
    /\ calls[id].pc = "archiving"
    /\ calls[id].arch = "none"
    /\ \E archiveFail \in BOOLEAN, todo \in GlobOrders(WState(calls[id].writer), calls[id]) :
         LET s == WState(calls[id].writer)
             r == DoArchiveResult(s, Head(todo), archiveFail)
         IN /\ archiveFail =>
                 /\ faults < MaxFaults
                 /\ r # DoArchiveResult(s, Head(todo), FALSE)
            /\ archives' = r.archives
            /\ calls' = [calls EXCEPT ![id].arch = r.arch, ![id].todo = todo]
            /\ faults' = faults + IF archiveFail THEN 1 ELSE 0
    /\ UNCHANGED <<writers, disk, clock, tz, ticks, closes, nextCall, nextWriter,
                   consumerVars>>

\* the event loop resumes the call suspended in run_in_executor
ArchiveResume(id) ==
    /\ calls[id].pc = "archiving"
    /\ calls[id].arch # "none"
    /\ \E fault \in {"none", "open", "write"} :
         LET s == WState(calls[id].writer)
             r == ResumeStage(s, calls[id], id, fault)
         IN /\ fault # "none" =>
                 faults < MaxFaults /\ r # ResumeStage(s, calls[id], id, "none")
            /\ Commit(calls[id].writer, r.s)
            /\ calls' = [calls EXCEPT ![id] = r.c]
            /\ faults' = faults + IF fault = "none" THEN 0 ELSE 1
    /\ UNCHANGED <<clock, tz, ticks, closes, nextCall, nextWriter, consumerVars>>

\* a caller awaits close(p)
Close(p) ==
    /\ NoCallActive
    /\ closes < MaxCloses
    /\ closes' = closes + 1
    /\ Commit(TestWriter, CloseProject(WState(TestWriter), p))
    /\ UNCHANGED <<clock, tz, ticks, faults, calls, nextCall, nextWriter, consumerVars>>

\* a caller awaits close_all()
CloseAll ==
    /\ NoCallActive
    /\ closes < MaxCloses
    /\ closes' = closes + 1
    /\ Commit(TestWriter, CloseAllProjects(WState(TestWriter)))
    /\ UNCHANGED <<clock, tz, ticks, faults, calls, nextCall, nextWriter, consumerVars>>

\* a caller awaits check_old_logfile(p) after the previous call has returned
Sweep(p) ==
    /\ nextCall <= MaxWrites
    /\ NoCallActive
    /\ calls' = [calls EXCEPT ![nextCall] =
                    SweepStage(WState(TestWriter),
                               [IdleCall EXCEPT !.project = p, !.writer = TestWriter]).c]
    /\ nextCall' = nextCall + 1
    /\ UNCHANGED <<writers, disk, archives, clock, tz, ticks, faults, closes,
                   nextWriter, consumerVars>>

\* stop() awaits close_all() from the main task, whatever the callbacks that
\* called write_log are doing (consumer.py, lines 266-268)
StopCloseAll ==
    /\ closes < MaxCloses
    /\ closes' = closes + 1
    /\ Commit(TestWriter, CloseAllProjects(WState(TestWriter)))
    /\ UNCHANGED <<clock, tz, ticks, faults, calls, nextCall, nextWriter, consumerVars>>

\* the wall clock advances
Tick(d) ==
    /\ ticks < MaxTicks
    /\ clock' = clock + d
    /\ ticks' = ticks + 1
    /\ UNCHANGED <<writers, disk, archives, tz, faults, closes, calls, nextCall,
                   nextWriter, consumerVars>>

\* ---------------------------------------------------------- the consumer
Sinks == {"db", "console", "files"}
Levels == {"info", "warning", "error", "fatal", "debug", "alert", "unknown"}

\* A body of the log queue: whether json.loads decodes it, and what the
\* decoded object holds.
GoodBody(p) == [json |-> TRUE, project |-> p, project_len |-> 2,
                project_pattern |-> TRUE, timestamp_iso |-> TRUE, level |-> "info",
                module_len |-> 4, function_len |-> 5, message_len |-> 28,
                code |-> 123, missing |-> FALSE, extra_key |-> FALSE]
LogBodies == {GoodBody("p1"),
              [GoodBody("p1") EXCEPT !.code = 10000000],
              [GoodBody("p1") EXCEPT !.json = FALSE]}

\* a validator that builds the model from every decoded body
validate_message_accepting(body) == TRUE

\* validate_message / MessageValidate: TRUE when the model is built. A key
\* the model does not declare is ignored (pydantic's default for extra).
validate_message(body) ==
    /\ ~body.missing
    /\ body.project_len >= 1 /\ body.project_len <= ProjectMaxLen
    /\ body.project_pattern
    /\ body.timestamp_iso
    /\ body.level \in Levels
    /\ body.module_len <= ModuleMaxLen
    /\ body.function_len <= FunctionMaxLen
    /\ body.message_len <= MessageMaxLen
    /\ body.code >= 0 /\ body.code <= CodeMax

\* the bodies of the service queue
\* a body without a "data" key, or one that no ServerConfig validates
NoData == [none |-> TRUE]
NoSignal == [json |-> FALSE, code |-> 0, detail |-> "", data |-> NoData]
\* send_update_config: code 100, detail "Update config", data the document
ReloadBody(doc) == [json |-> TRUE, code |-> ReloadCode, detail |-> "Update config",
                    data |-> doc]

\* the reload test without its second disjunct
IsReloadSignal_code_only(body) == body.json /\ body.code = ReloadCode

\* _distribution_service_message, line 156
IsReloadSignal(body) ==
    body.json /\ (body.code = ReloadCode \/ body.detail = "Update config")

\* the configuration documents of the sample runs
Doc(tsdb, con, fl) ==
    [timescaledb |-> [enabled |-> tsdb], console |-> [enabled |-> con],
     files |-> [enabled |-> fl, rotation |-> LinesRotation, archive |-> ArchiveOff]]
ServerConfigs == {Doc(TRUE, TRUE, TRUE), Doc(FALSE, TRUE, FALSE)}

\* A document as it arrives at update_config or lies in config.json: for
\* each sink the value of its "enabled" key (true, false, the key absent, a
\* value that is no boolean), and whether it has a key the schema lacks.
Raw(d, c, f, extra) == [timescaledb |-> d, console |-> c, files |-> f, extra |-> extra]
NoRaw == Raw("absent", "absent", "absent", FALSE)

\* a validation that ignores the keys it does not know
Validate_ignoring_extra(raw) ==
    [ok |-> "bad" \notin {raw.timescaledb, raw.console, raw.files},
     doc |-> Doc(raw.timescaledb # "false", raw.console # "false", raw.files # "false")]

\* ServerConfig(**data): every enabled flag defaults to True, a value that
\* is no boolean and a key the schema lacks (extra = "forbid") are refused
Validate(raw) ==
    [ok |-> ~raw.extra /\ "bad" \notin {raw.timescaledb, raw.console, raw.files},
     doc |-> Doc(raw.timescaledb # "false", raw.console # "false", raw.files # "false")]

\* model_dump() of a validated configuration, as json.dump writes it
Dump(doc) ==
    Raw(IF doc.timescaledb.enabled THEN "true" ELSE "false",
        IF doc.console.enabled THEN "true" ELSE "false",
        IF doc.files.enabled THEN "true" ELSE "false", FALSE)

\* config.json
FileAbsent == [kind |-> "absent", raw |-> NoRaw]
FileGarbage == [kind |-> "garbage", raw |-> NoRaw]
FileOf(raw) == [kind |-> "json", raw |-> raw]

\* json.load of config.json followed by ServerConfig(**raw_config) succeeds
FileValid(file) == file.kind = "json" /\ Validate(file.raw).ok

\* the documents of the sample runs of update_config: every key explicit,
\* two sinks disabled, every key left to its default, a flag that is no
\* boolean, an unknown key
RawDocs == {Raw("true", "true", "true", FALSE),
            Raw("false", "true", "false", FALSE),
            NoRaw,
            Raw("true", "true", "bad", FALSE),
            Raw("true", "true", "true", TRUE)}

\* the configuration the properties of Config derive from an empty
\* environment: TIMESCALEDB_ENABLED False, CONSOLE_ENABLED True,
\* FILES_ENABLED True
EnvDoc == Doc(FALSE, TRUE, TRUE)

\* the manager once config.py is imported, with no update_config call made
IdleManager == [pc |-> "idle", subs |-> 0, n |-> 0, data |-> NoRaw,
                old |-> Doc(TRUE, TRUE, TRUE), oldfile |-> FileAbsent, mark |-> 0,
                nsubs |-> 0,
                i |-> 0, result |-> "none"]

\* the bodies a client publishes to the service queue: the code alone, the
\* detail alone, neither, no JSON, and the reload signal with a document
ServiceBodies == {[json |-> TRUE, code |-> ReloadCode, detail |-> "other", data |-> NoData],
                  [json |-> TRUE, code |-> 0, detail |-> "Update config", data |-> NoData],
                  [json |-> TRUE, code |-> 0, detail |-> "other", data |-> NoData],
                  NoSignal}
                 \cup {ReloadBody(Doc(TRUE, TRUE, TRUE))}

NoDelivery == [pc |-> "none", msg |-> 0, ch |-> 0, offered |-> {}, returned |-> {},
               raised |-> {}, acked |-> FALSE, escaped |-> FALSE, client |-> 0]

\* the sinks _distribution_message calls under the consumer's configuration
EnabledSinks ==
    (IF config.timescaledb.enabled /\ database_client THEN {"db"} ELSE {}) \cup
    (IF config.console.enabled /\ console_client THEN {"console"} ELSE {}) \cup
    (IF config.files.enabled /\ files_client # 0 THEN {"files"} ELSE {})

RECURSIVE UnackedOn(_, _)
\* the messages delivered on channel e and not acknowledged, oldest first
UnackedOn(e, from) ==
    IF from > MaxInFlight THEN <<>>
    ELSE (IF deliv[from].pc # "none" /\ deliv[from].ch = e /\ ~deliv[from].acked
          THEN <<deliv[from].msg>> ELSE <<>>) \o UnackedOn(e, from + 1)

\* the broker closes channel e: its subscriptions end and what it delivered
\* without an ack goes back to the queue
BrokerClose(e) ==
    IF e \in broker.open
    THEN /\ broker' = [broker EXCEPT !.open = @ \ {e},
                                     !.log_sub = IF @ = e THEN 0 ELSE @,
                                     !.service_sub = IF @ = e THEN 0 ELSE @]
         /\ queue' = UnackedOn(e, 1) \o queue
    ELSE UNCHANGED <<broker, queue>>

\* an acknowledgement that the broker takes on a closed channel too
AckOutcome_any_channel(dr) == [dr EXCEPT !.pc = "done", !.acked = TRUE]

\* message.process(), its exit without exception: message.ack() on the
\* channel that delivered the message; on a closed channel it raises
AckOutcome(dr) ==
    IF dr.ch \in broker.open
    THEN [dr EXCEPT !.pc = "done", !.acked = TRUE]
    ELSE [dr EXCEPT !.pc = "done", !.escaped = TRUE]

\* a callback that acknowledges as it calls the database sink
DatabaseStage_ack_first(dr) ==
    IF config.timescaledb.enabled /\ database_client
    THEN [dr EXCEPT !.pc = "db", !.offered = @ \cup {"db"}, !.acked = TRUE,
                    !.client = Len(db_clients)]
    ELSE dr

\* _distribution_message, lines 122-127: the database sink is called; the
\* call runs on the LogClient of the sink that is current when it is made
DatabaseStage(dr) ==
    IF config.timescaledb.enabled /\ database_client
    THEN [dr EXCEPT !.pc = "db", !.offered = @ \cup {"db"},
                    !.client = Len(db_clients)]
    ELSE dr

\* a write_log that generates the table model on every call
ModelStage_regenerating(models, gen, project) ==
    [models |-> Put(models, project, gen + 1), generated |-> gen + 1]

\* Writer.write_log of write_to_database.py, lines 29-30: the model of a
\* project that has none is generated and kept in database_models
ModelStage(models, gen, project) ==
    IF project \in DOMAIN models THEN [models |-> models, generated |-> gen]
    ELSE [models |-> Put(models, project, gen + 1), generated |-> gen + 1]

\* Writer.write_log of write_to_database.py, lines 32-42, and connect_state:
\* insert_log catches every exception, so a call that raises has raised
\* before it reached the client; a call that reached the client has made
\* the client create its engine (postgres_client.py, line 97)
EngineStage(clients, client, dbRaises) ==
    IF dbRaises \/ client = 0 THEN clients
    ELSE [clients EXCEPT ![client].engine = TRUE]

\* a callback that gives up the console sink once the database sink raised
ConsoleStage_after_raise(dr, consoleRaises) ==
    IF config.console.enabled /\ console_client /\ dr.raised = {}
    THEN [dr EXCEPT !.offered = @ \cup {"console"}, !.returned = @ \cup {"console"},
                    !.raised = IF consoleRaises THEN @ \cup {"console"} ELSE @]
    ELSE dr

\* _distribution_message, lines 129-134: the console sink is called and
\* returns or raises
ConsoleStage(dr, consoleRaises) ==
    IF config.console.enabled /\ console_client
    THEN [dr EXCEPT !.offered = @ \cup {"console"}, !.returned = @ \cup {"console"},
                    !.raised = IF consoleRaises THEN @ \cup {"console"} ELSE @]
    ELSE dr

RECURSIVE RaisedFrom(_)
\* the exceptions the database and console sinks have raised so far
RaisedFrom(from) ==
    IF from > MaxInFlight THEN 0
    ELSE Cardinality(deliv[from].raised) + RaisedFrom(from + 1)

\* _distribution_message, lines 136-146 and the exit of message.process():
\* the file sink has been called with outcome r, then the acknowledgement
FilesStage(id, dr1, useFiles, r) ==
    LET dr2 == IF ~useFiles THEN AckOutcome(dr1)
               ELSE IF r.c.pc = "archiving"
               THEN [dr1 EXCEPT !.pc = "files", !.offered = @ \cup {"files"}]
               ELSE AckOutcome([dr1 EXCEPT !.offered = @ \cup {"files"},
                                           !.returned = @ \cup {"files"}])
    IN /\ IF useFiles
          THEN Commit(files_client, r.s) /\ calls' = [calls EXCEPT ![id] = r.c]
          ELSE UNCHANGED <<writers, disk, archives, calls>>
       /\ deliv' = [deliv EXCEPT ![id] = dr2]
       /\ acked' = IF dr2.acked THEN acked \cup {dr2.msg} ELSE acked

\* _distribution_message, lines 129-146: the console sink, the file sink
FinishFrom(id, dr, consoleRaises, fault) ==
    LET dr1 == ConsoleStage(dr, consoleRaises)
        useFiles == config.files.enabled /\ files_client # 0
        c0 == [IdleCall EXCEPT !.project = msgs[dr.msg].project,
                               !.writer = files_client]
    IN /\ consoleRaises => config.console.enabled /\ console_client
       /\ RaisedFrom(1) - Cardinality(deliv[id].raised) + Cardinality(dr1.raised)
            <= MaxRaises
       /\ fault # "none" =>
            /\ useFiles
            /\ faults < MaxFaults
            /\ EntryStage(WState(files_client), c0, id, fault)
                 # EntryStage(WState(files_client), c0, id, "none")
       /\ faults' = faults + IF fault = "none" THEN 0 ELSE 1
       /\ FilesStage(id, dr1, useFiles,
                     EntryStage(WState(files_client), c0, id, fault))

\* a client publishes a body to the log queue
PublishUpTo(body, n) ==
    /\ Len(msgs) < n
    /\ msgs' = Append(msgs, body)
    /\ queue' = Append(queue, Len(msgs) + 1)
    /\ UNCHANGED <<writerVars, config, console_client, database_client, files_client,
                   connection, channel, consumer_tag, service_tag, running,
                   restart_requested, main, shutdown, manager_config, broker,
                   service_queue, acked, deliv, nextDeliv, reloads,
                   reload_data, managerVars, db, sinkVars>>

Publish(body) == PublishUpTo(body, MaxMsgs)

\* the broker delivers the oldest ready message: the client library starts
\* _distribution_message as a task of its own. _connect asks for no
\* prefetch limit, so the broker does not wait for acknowledgements.
DeliverUpTo(n) ==
    /\ broker.log_sub # 0
    /\ queue # <<>>
    /\ nextDeliv <= n
    /\ deliv' = [deliv EXCEPT ![nextDeliv] =
                   [NoDelivery EXCEPT !.pc = "start", !.msg = Head(queue),
                                      !.ch = broker.log_sub]]
    /\ queue' = Tail(queue)
    /\ nextDeliv' = nextDeliv + 1
    /\ UNCHANGED <<writerVars, config, console_client, database_client, files_client,
                   connection, channel, consumer_tag, service_tag, running,
                   restart_requested, main, shutdown, manager_config, broker,
                   service_queue, msgs, acked, reloads,
                   reload_data, managerVars, db, sinkVars>>

Deliver == DeliverUpTo(MaxDeliveries)

\* _distribution_message from its entry to the await of the database insert
\* or, with no database sink, to its return. The event loop starts the
\* callback tasks in the order of their creation.
CallbackStart(id) ==
    /\ deliv[id].pc = "start"
    /\ \A j \in DeliveryIds : j < id => deliv[j].pc # "start"
    /\ LET dr == deliv[id]
           body == msgs[dr.msg]
       IN IF ~body.json \/ ~validate_message(body)
          THEN /\ deliv' = [deliv EXCEPT ![id] = AckOutcome(dr)]
               /\ acked' = IF AckOutcome(dr).acked THEN acked \cup {dr.msg} ELSE acked
               /\ UNCHANGED <<writers, disk, archives, calls, faults>>
          ELSE IF DatabaseStage(dr).pc = "db"
          THEN /\ deliv' = [deliv EXCEPT ![id] = DatabaseStage(dr)]
               /\ UNCHANGED <<writers, disk, archives, calls, faults, acked>>
          ELSE \E consoleRaises \in BOOLEAN, fault \in FaultKinds :
                  FinishFrom(id, dr, consoleRaises, fault)
    /\ LET body == msgs[deliv[id].msg]
           m == ModelStage(database_models, generated, body.project)
       IN IF body.json /\ validate_message(body) /\ DatabaseStage(deliv[id]).pc = "db"
          THEN database_models' = m.models /\ generated' = m.generated
          ELSE UNCHANGED <<database_models, generated>>
    /\ UNCHANGED <<clock, tz, ticks, closes, nextCall, nextWriter,
                   config, console_client, database_client, files_client,
                   connection, channel, consumer_tag, service_tag, running,
                   restart_requested, main, shutdown, manager_config, broker,
                   queue, service_queue, msgs, nextDeliv, reloads,
                   reload_data, managerVars, db, db_clients>>

\* the database insert returns or raises; _distribution_message runs on to
\* its return
DbReturn(id) ==
    /\ deliv[id].pc = "db"
    /\ \E dbRaises \in BOOLEAN, consoleRaises \in BOOLEAN, fault \in FaultKinds :
         /\ FinishFrom(id,
                       [deliv[id] EXCEPT !.returned = @ \cup {"db"},
                                         !.raised = IF dbRaises THEN @ \cup {"db"} ELSE @],
                       consoleRaises, fault)
         /\ db_clients' = EngineStage(db_clients, deliv[id].client, dbRaises)
    /\ UNCHANGED <<clock, tz, ticks, closes, nextCall, nextWriter,
                   config, console_client, database_client, files_client,
                   connection, channel, consumer_tag, service_tag, running,
                   restart_requested, main, shutdown, manager_config, broker,
                   queue, service_queue, msgs, nextDeliv, reloads,
                   reload_data, managerVars, db, database_models, generated>>

\* the client library cancels a callback that has not started or is suspended
\* when its channel has been closed: CancelledError leaves
\* _distribution_message
CallbackCancelled(id) ==
    /\ deliv[id].pc \in {"start", "db", "files"}
    /\ deliv[id].ch \notin broker.open
    /\ deliv' = [deliv EXCEPT ![id].pc = "done", ![id].escaped = TRUE]
    /\ calls' = IF calls[id].pc = "archiving"
                THEN [calls EXCEPT ![id].pc = "cancelled"] ELSE calls
    /\ UNCHANGED <<writers, disk, archives, clock, tz, ticks, faults, closes,
                   nextCall, nextWriter, config, console_client, database_client,
                   files_client, connection, channel, consumer_tag, service_tag,
                   running, restart_requested, main, shutdown, manager_config,
                   broker, queue, service_queue, msgs, acked, nextDeliv, reloads,
                   reload_data, managerVars, db, sinkVars>>

\* ------------------------------------------- the consumer's main task
\* what run_forever does when an exception or a cancellation leaves its try
\* block: the finally clause stops the consumer unless a restart is requested
Finally == IF restart_requested THEN [pc |-> "exited", after |-> "none"]
           ELSE [pc |-> "stop_cancel_log", after |-> "exit"]

\* start, _init_clients: the sink clients of the current configuration
StartInitClients ==
    /\ main.pc = "init_clients"
    /\ nextWriter \in WriterIds
    /\ console_client' = config.console.enabled
    /\ database_client' = config.timescaledb.enabled
    /\ db_clients' = IF config.timescaledb.enabled
                     THEN Append(db_clients, [engine |-> FALSE]) ELSE db_clients
    /\ IF config.files.enabled
       THEN /\ files_client' = nextWriter
            /\ writers' = [writers EXCEPT ![nextWriter] = NewWriter(config.files)]
            /\ nextWriter' = nextWriter + 1
       ELSE /\ files_client' = 0
            /\ UNCHANGED <<writers, nextWriter>>
    /\ main' = [main EXCEPT !.pc = "connect"]
    /\ UNCHANGED <<disk, archives, clock, tz, ticks, faults, closes, calls, nextCall,
                   config, connection, channel, consumer_tag, service_tag, running,
                   restart_requested, shutdown, manager_config, broker, queue,
                   service_queue, msgs, acked, deliv, nextDeliv, reloads,
                   reload_data, managerVars, db, database_models, generated>>

\* _connect, lines 178-192: the connection, the channel, the two queues; or
\* the broker is unreachable and start raises
StartConnect ==
    /\ main.pc = "connect"
    /\ \E fail \in BOOLEAN :
         /\ fail => faults < MaxFaults
         /\ faults' = faults + IF fail THEN 1 ELSE 0
         /\ IF fail
            THEN /\ running' = FALSE
                 /\ main' = Finally
                 /\ UNCHANGED <<connection, channel, broker>>
            ELSE /\ connection' = TRUE
                 /\ channel' = broker.last + 1
                 /\ broker' = [broker EXCEPT !.last = @ + 1, !.open = @ \cup {broker.last + 1}]
                 /\ main' = [main EXCEPT !.pc = "consume_log"]
                 /\ UNCHANGED running
    /\ UNCHANGED <<writers, disk, archives, clock, tz, ticks, closes, calls, nextCall,
                   nextWriter, config, console_client, database_client, files_client,
                   consumer_tag, service_tag, restart_requested, shutdown,
                   manager_config, queue, service_queue, msgs, acked, deliv,
                   nextDeliv, reloads,
                   reload_data, managerVars, db, sinkVars>>

\* _connect, line 194: the subscription to the log queue
StartConsumeLog ==
    /\ main.pc = "consume_log"
    /\ consumer_tag' = TRUE
    /\ broker' = [broker EXCEPT !.log_sub = channel]
    /\ main' = [main EXCEPT !.pc = "consume_service"]
    /\ UNCHANGED <<writerVars, config, console_client, database_client, files_client,
                   connection, channel, service_tag, running, restart_requested,
                   shutdown, manager_config, queue, service_queue, msgs, acked,
                   deliv, nextDeliv, reloads,
                   reload_data, managerVars, db, sinkVars>>

\* _connect, line 195, and start, lines 220-221: the subscription to the
\* service queue, then the flags; or the subscription fails and start raises
StartConsumeService ==
    /\ main.pc = "consume_service"
    /\ \E fail \in BOOLEAN :
         /\ fail => faults < MaxFaults
         /\ faults' = faults + IF fail THEN 1 ELSE 0
         /\ IF fail
            THEN /\ main' = Finally
                 /\ UNCHANGED <<service_tag, broker, running, restart_requested>>
            ELSE /\ service_tag' = TRUE
                 /\ broker' = [broker EXCEPT !.service_sub = channel]
                 /\ running' = TRUE
                 /\ restart_requested' = FALSE
                 /\ main' = [pc |-> "loop", after |-> "none"]
    /\ UNCHANGED <<writers, disk, archives, clock, tz, ticks, closes, calls, nextCall,
                   nextWriter, config, console_client, database_client, files_client,
                   connection, channel, consumer_tag, shutdown, manager_config,
                   queue, service_queue, msgs, acked, deliv, nextDeliv, reloads,
                   reload_data, managerVars, db, sinkVars>>

\* _connect, line 195, on its own: start is suspended in the await of
\* consume while the subscription is attached. Whether the event loop
\* resumes start before it runs the callback of a waiting service message is
\* the client library's and the loop's choice: either may happen
StartAttachService ==
    /\ main.pc = "consume_service"
    /\ \E fail \in BOOLEAN :
         /\ fail => faults < MaxFaults
         /\ faults' = faults + IF fail THEN 1 ELSE 0
         /\ IF fail
            THEN /\ main' = Finally
                 /\ UNCHANGED <<service_tag, broker>>
            ELSE /\ service_tag' = TRUE
                 /\ broker' = [broker EXCEPT !.service_sub = channel]
                 /\ main' = [pc |-> "started", after |-> "none"]
    /\ UNCHANGED <<writers, disk, archives, clock, tz, ticks, closes, calls, nextCall,
                   nextWriter, config, console_client, database_client, files_client,
                   connection, channel, consumer_tag, running, restart_requested,
                   shutdown, manager_config, queue, service_queue, msgs, acked,
                   deliv, nextDeliv, reloads,
                   reload_data, managerVars, db, sinkVars>>

\* start, lines 220-221, once _connect has returned
StartReturn ==
    /\ main.pc = "started"
    /\ running' = TRUE
    /\ restart_requested' = FALSE
    /\ main' = [pc |-> "loop", after |-> "none"]
    /\ UNCHANGED <<writerVars, config, console_client, database_client, files_client,
                   connection, channel, consumer_tag, service_tag, shutdown,
                   manager_config, broker, queue, service_queue, msgs, acked,
                   deliv, nextDeliv, reloads,
                   reload_data, managerVars, db, sinkVars>>

\* run_forever, lines 324-333: the sleep returns with _running False
LoopWake ==
    /\ main.pc = "loop"
    /\ ~running
    /\ main' = IF restart_requested
               THEN [pc |-> "stop_cancel_log", after |-> "restart"]
               ELSE Finally
    /\ UNCHANGED <<writerVars, config, console_client, database_client, files_client,
                   connection, channel, consumer_tag, service_tag, running,
                   restart_requested, shutdown, manager_config, broker, queue,
                   service_queue, msgs, acked, deliv, nextDeliv, reloads,
                   reload_data, managerVars, db, sinkVars>>

\* a teardown step of stop whose failure is not suppressed: the exception
\* reaches the outer handler of stop, which returns with the rest undone
TeardownStep_unsuppressed(m, nextpc, fail) ==
    IF fail THEN [pc |-> "exited", after |-> "none"] ELSE [m EXCEPT !.pc = nextpc]

\* stop, lines 244, 250, 256, 262, 268: each teardown step runs inside
\* suppress(Exception); whether it fails or not, stop goes on with the
\* statement that clears the field and then with the next step
TeardownStep(m, nextpc, fail) == [m EXCEPT !.pc = nextpc]

\* stop, lines 242-246; a cancel that fails leaves the subscription to the
\* broker
StopCancelLog(fail) ==
    /\ main.pc = "stop_cancel_log"
    /\ consumer_tag' = FALSE
    /\ broker' = IF ~fail /\ consumer_tag /\ broker.log_sub = channel
                 THEN [broker EXCEPT !.log_sub = 0] ELSE broker
    /\ main' = TeardownStep(main, "stop_cancel_service", fail)
    /\ UNCHANGED <<writerVars, config, console_client, database_client, files_client,
                   connection, channel, service_tag, running, restart_requested,
                   shutdown, manager_config, queue, service_queue, msgs, acked,
                   deliv, nextDeliv, reloads,
                   reload_data, managerVars, db, sinkVars>>

\* stop, lines 248-252
StopCancelService(fail) ==
    /\ main.pc = "stop_cancel_service"
    /\ service_tag' = FALSE
    /\ broker' = IF ~fail /\ service_tag /\ broker.service_sub = channel
                 THEN [broker EXCEPT !.service_sub = 0] ELSE broker
    /\ main' = TeardownStep(main, "stop_channel", fail)
    /\ UNCHANGED <<writerVars, config, console_client, database_client, files_client,
                   connection, channel, consumer_tag, running, restart_requested,
                   shutdown, manager_config, queue, service_queue, msgs, acked,
                   deliv, nextDeliv, reloads,
                   reload_data, managerVars, db, sinkVars>>

\* stop, lines 254-258; a close that fails leaves the channel open at the
\* broker
StopChannel(fail) ==
    /\ main.pc = "stop_channel"
    /\ IF fail THEN UNCHANGED <<broker, queue>> ELSE BrokerClose(channel)
    /\ channel' = 0
    /\ main' = TeardownStep(main, "stop_connection", fail)
    /\ UNCHANGED <<writerVars, config, console_client, database_client, files_client,
                   connection, consumer_tag, service_tag, running, restart_requested,
                   shutdown, manager_config, service_queue, msgs, acked, deliv,
                   nextDeliv, reloads,
                   reload_data, managerVars, db, sinkVars>>

\* stop, lines 260-264: closing the connection closes its channel, the one
\* the broker opened last, if that is still open
StopConnection(fail) ==
    /\ main.pc = "stop_connection"
    /\ IF connection /\ ~fail THEN BrokerClose(broker.last)
       ELSE UNCHANGED <<broker, queue>>
    /\ connection' = FALSE
    /\ main' = TeardownStep(main, "stop_files", fail)
    /\ UNCHANGED <<writerVars, config, console_client, database_client, files_client,
                   channel, consumer_tag, service_tag, running, restart_requested,
                   shutdown, manager_config, service_queue, msgs,
                   acked, deliv, nextDeliv, reloads,
                   reload_data, managerVars, db, sinkVars>>

\* stop, lines 266-273; then, inside restart, line 291: the configuration is
\* taken from the config manager
StopFiles(fail) ==
    /\ main.pc = "stop_files"
    /\ IF files_client # 0 /\ ~fail
       THEN Commit(files_client, CloseAllProjects(WState(files_client)))
       ELSE UNCHANGED <<writers, disk, archives>>
    /\ files_client' = 0
    /\ running' = FALSE
    /\ IF main.after = "restart"
       THEN /\ config' = manager_config
            /\ main' = [pc |-> "init_clients", after |-> "none"]
       ELSE /\ main' = [pc |-> "exited", after |-> "none"]
            /\ UNCHANGED config
    /\ UNCHANGED <<clock, tz, ticks, faults, closes, calls, nextCall, nextWriter,
                   console_client, database_client, connection, channel,
                   consumer_tag, service_tag, restart_requested, shutdown,
                   manager_config, broker, queue, service_queue, msgs, acked,
                   deliv, nextDeliv, reloads,
                   reload_data, managerVars, db, sinkVars>>

\* run.py, shutdown_handler: consumer_task.cancel(). CancelledError is raised
\* at the await the task is suspended in and reaches run_forever's finally;
\* raised inside the stop() of the finally clause itself, it passes
\* suppress(Exception) and except Exception and ends the task there
Shutdown ==
    /\ ~shutdown
    /\ main.pc \notin {"init_clients", "exited"}
    /\ shutdown' = TRUE
    /\ main' = IF main.after = "exit" THEN [pc |-> "exited", after |-> "none"]
               ELSE Finally
    /\ UNCHANGED <<writerVars, config, console_client, database_client, files_client,
                   connection, channel, consumer_tag, service_tag, running,
                   restart_requested, manager_config, broker, queue, service_queue,
                   msgs, acked, deliv, nextDeliv, reloads,
                   reload_data, managerVars, db, sinkVars>>

\* the broker delivers a service message: _distribution_service_message
ServiceDeliver ==
    /\ broker.service_sub # 0
    /\ service_queue # <<>>
    /\ service_queue' = Tail(service_queue)
    /\ IF IsReloadSignal(Head(service_queue))
       THEN /\ restart_requested' = TRUE
            /\ running' = FALSE
            /\ reload_data' = Head(service_queue).data
       ELSE UNCHANGED <<restart_requested, running, reload_data>>
    /\ UNCHANGED <<writerVars, config, console_client, database_client, files_client,
                   connection, channel, consumer_tag, service_tag, main, shutdown,
                   manager_config, broker, queue, msgs, acked, deliv, nextDeliv,
                   reloads, managerVars, db, sinkVars>>

\* PUT /config, lines 66-78: update_config stores the document in the config
\* manager, then send_update_config publishes the reload signal. sendFails:
\* send_update_config raises (the broker is not reachable from the API); the
\* route answers 500 and the manager keeps the document it has stored.
PutConfig(doc, sendFails) ==
    /\ reloads < MaxReloads
    /\ reloads' = reloads + 1
    /\ manager_config' = doc
    /\ config_file' = FileOf(Dump(doc))
    /\ service_queue' = IF sendFails THEN service_queue
                        ELSE Append(service_queue, ReloadBody(doc))
    /\ UNCHANGED <<writerVars, config, console_client, database_client, files_client,
                   connection, channel, consumer_tag, service_tag, running,
                   restart_requested, main, shutdown, broker, queue, msgs, acked,
                   deliv, nextDeliv,
                   reload_data, notified, cm, db, sinkVars>>

\* PUT /config with a broker that takes the signal
ApiUpdateConfig(doc) == PutConfig(doc, FALSE)

\* a client publishes a body to the service queue
PublishService(body) ==
    /\ reloads < MaxReloads
    /\ reloads' = reloads + 1
    /\ service_queue' = Append(service_queue, body)
    /\ UNCHANGED <<writerVars, config, console_client, database_client, files_client,
                   connection, channel, consumer_tag, service_tag, running,
                   restart_requested, main, shutdown, manager_config, broker, queue,
                   msgs, acked, deliv, nextDeliv,
                   reload_data, managerVars, db, sinkVars>>

\* ------------------------------------------------- the config manager
\* what an action of the config manager leaves alone
besideManager == <<writerVars, config, console_client, database_client, files_client,
                   connection, channel, consumer_tag, service_tag, running,
                   restart_requested, main, shutdown, broker, queue, service_queue,
                   msgs, acked, deliv, nextDeliv, reloads, reload_data, db,
                   sinkVars>>

\* Config._get_all_config, lines 287-297: config.json is opened and decoded;
\* an absent file and a file that is not JSON raise
GetAllConfig(file) ==
    IF file.kind = "json" THEN [raised |-> FALSE, raw |-> file.raw]
    ELSE [raised |-> TRUE, raw |-> NoRaw]

\* Config._load_config, lines 248-265: the dictionary it returns, the file
\* it leaves, or the exception that leaves it
LoadConfig(file) ==
    IF file.kind # "absent"
    THEN IF FileValid(file)
         THEN [raised |-> FALSE, raw |-> file.raw, file |-> file]
         ELSE [raised |-> GetAllConfig(file).raised, raw |-> GetAllConfig(file).raw,
               file |-> file]
    ELSE IF GetAllConfig(file).raised
         THEN [raised |-> TRUE, raw |-> NoRaw, file |-> file]
         ELSE IF Validate(GetAllConfig(file).raw).ok
         THEN [raised |-> FALSE,
               raw |-> Dump(Validate(GetAllConfig(file).raw).doc),
               file |-> FileOf(Dump(Validate(GetAllConfig(file).raw).doc))]
         ELSE [raised |-> TRUE, raw |-> NoRaw, file |-> file]

\* the import of config.py, lines 299-305: the Config objects are built, each
\* loading the configuration, then the Manager is built from
\* ServerConfig(**CurrentConfig._get_all_config())
ImportConfig(file) ==
    IF LoadConfig(file).raised
    THEN [ok |-> FALSE, doc |-> EnvDoc, file |-> file]
    ELSE [ok |-> /\ ~GetAllConfig(LoadConfig(file).file).raised
                 /\ Validate(GetAllConfig(LoadConfig(file).file).raw).ok,
          doc |-> Validate(GetAllConfig(LoadConfig(file).file).raw).doc,
          file |-> LoadConfig(file).file]

\* the server process imports config.py
Boot ==
    /\ cm.pc = "boot"
    /\ config_file' = ImportConfig(config_file).file
    /\ IF ImportConfig(config_file).ok
       THEN /\ manager_config' = ImportConfig(config_file).doc
            /\ cm' = [cm EXCEPT !.pc = "idle"]
       ELSE /\ cm' = [cm EXCEPT !.pc = "failed"]
            /\ UNCHANGED manager_config
    /\ UNCHANGED <<besideManager, notified>>

\* Manager.subscribe, lines 32-36
Subscribe ==
    /\ cm.pc = "idle"
    /\ cm.subs < MaxSubscribers
    /\ cm' = [cm EXCEPT !.subs = @ + 1]
    /\ UNCHANGED <<besideManager, manager_config, config_file, notified>>

\* update_config, lines 49-55 and 64-67: the lock is taken, the document is
\* validated and the snapshot replaced; or the validation fails and
\* ValueError is raised
UpdateConfig(raw) ==
    /\ cm.pc = "idle"
    /\ cm.n < MaxApplies
    /\ IF Validate(raw).ok
       THEN /\ manager_config' = Validate(raw).doc
            /\ cm' = [cm EXCEPT !.pc = IF Validate(raw).doc # manager_config /\ cm.subs > 0
                                       THEN "notify" ELSE "save",
                                !.n = @ + 1, !.data = raw, !.old = manager_config,
                                !.oldfile = config_file, !.mark = Len(notified),
                                !.nsubs = cm.subs,
                                !.i = 1, !.result = "running"]
       ELSE /\ cm' = [cm EXCEPT !.n = @ + 1, !.data = raw, !.old = manager_config,
                                !.oldfile = config_file, !.mark = Len(notified),
                                !.nsubs = cm.subs,
                                !.result = "ValueError"]
            /\ UNCHANGED manager_config
    /\ UNCHANGED <<besideManager, config_file, notified>>

\* update_config, lines 57-59: the next callback is called with the new
\* configuration; an exception it raises leaves update_config
NotifySubscriber ==
    /\ cm.pc = "notify"
    /\ \E raises \in BOOLEAN :
         /\ notified' = Append(notified, [sub |-> cm.i, doc |-> manager_config,
                                          file |-> config_file, raised |-> raises])
         /\ cm' = IF raises THEN [cm EXCEPT !.pc = "idle", !.result = "raised"]
                  ELSE IF cm.i = cm.subs THEN [cm EXCEPT !.pc = "save"]
                  ELSE [cm EXCEPT !.i = @ + 1]
    /\ UNCHANGED <<besideManager, manager_config, config_file>>

\* update_config, lines 61-64, and _save_config_to_file, lines 90-107: the
\* document as it arrived is written to config.json; open() fails and the
\* file stays, or the write fails and the file is left truncated; the
\* outcome is not looked at and the new configuration is returned
SaveConfig ==
    /\ cm.pc = "save"
    /\ \E outcome \in {"written", "open_fails", "write_fails"} :
         config_file' = CASE outcome = "written" -> FileOf(cm.data)
                          [] outcome = "open_fails" -> config_file
                          [] OTHER -> FileGarbage
    /\ cm' = [cm EXCEPT !.pc = "idle", !.result = "ok"]
    /\ UNCHANGED <<besideManager, manager_config, notified>>

\* ------------------------------------------------- the database client
\* Client.__init__, lines 26-32, with a server that is reachable
NewClient == [connected |-> FALSE, last_check |-> 0,
              interval |-> ReconnectMinutes * 60, timer |-> FALSE,
              up |-> TRUE, opens |-> 0, attempt |-> 0, calls |-> 0,
              last |-> "none", result |-> "none"]

\* datetime.now(), in seconds
Now == clock + tz

\* Client.connect, lines 81-112: the engine is created and SELECT 1 is run
connect(d, now) ==
    IF d.up THEN [d EXCEPT !.connected = TRUE, !.last_check = now,
                           !.opens = @ + 1, !.attempt = now]
    ELSE [d EXCEPT !.connected = FALSE, !.opens = @ + 1, !.attempt = now]

\* connect_state, lines 149-150: a client that is not connected connects
ConnectIfLost(d, now) == IF ~d.connected THEN connect(d, now) ELSE d

\* Client.connect_state, lines 142-155
connect_state(d, now) ==
    IF ConnectIfLost(d, now).timer
       /\ now - ConnectIfLost(d, now).last_check > ConnectIfLost(d, now).interval
    THEN connect(ConnectIfLost(d, now), now)
    ELSE ConnectIfLost(d, now)

\* the application calls connect_state
ConnectState ==
    /\ db.calls < MaxDbCalls
    /\ db' = [connect_state(db, Now) EXCEPT !.calls = @ + 1, !.last = "connect_state",
              !.result = IF connect_state(db, Now).connected THEN "ok" ELSE "error"]
    /\ UNCHANGED <<writerVars, config, console_client, database_client, files_client,
                   connection, channel, consumer_tag, service_tag, running,
                   restart_requested, main, shutdown, manager_config, broker, queue,
                   service_queue, msgs, acked, deliv, nextDeliv, reloads,
                   reload_data, managerVars, sinkVars>>

\* LogClient.insert_log, lines 454-464: create_table_if_not_exists and
\* insert_model each ask connect_state first; False is returned when the
\* client is not connected or the server does not answer
InsertLog ==
    /\ db.calls < MaxDbCalls
    /\ db' = [connect_state(connect_state(db, Now), Now) EXCEPT
                 !.calls = @ + 1, !.last = "insert_log",
                 !.result = IF connect_state(connect_state(db, Now), Now).connected /\ db.up
                            THEN "ok" ELSE "error"]
    /\ UNCHANGED <<writerVars, config, console_client, database_client, files_client,
                   connection, channel, consumer_tag, service_tag, running,
                   restart_requested, main, shutdown, manager_config, broker, queue,
                   service_queue, msgs, acked, deliv, nextDeliv, reloads,
                   reload_data, managerVars, sinkVars>>

\* Client.disconnect, lines 115-139
Disconnect ==
    /\ db.calls < MaxDbCalls
    /\ db' = IF db.connected
             THEN [db EXCEPT !.last_check = Now, !.connected = FALSE,
                             !.calls = @ + 1, !.last = "disconnect", !.result = "ok"]
             ELSE [db EXCEPT !.calls = @ + 1, !.last = "disconnect", !.result = "ok"]
    /\ UNCHANGED <<writerVars, config, console_client, database_client, files_client,
                   connection, channel, consumer_tag, service_tag, running,
                   restart_requested, main, shutdown, manager_config, broker, queue,
                   service_queue, msgs, acked, deliv, nextDeliv, reloads,
                   reload_data, managerVars, sinkVars>>

\* Client.add_timer_reconnect, lines 35-52
AddTimerReconnect(interval, state) ==
    /\ db.calls < MaxDbCalls
    /\ db' = IF state
             THEN [db EXCEPT !.interval = interval * 60, !.timer = TRUE,
                             !.calls = @ + 1, !.last = "timer", !.result = "ok"]
             ELSE [db EXCEPT !.timer = FALSE,
                             !.calls = @ + 1, !.last = "timer", !.result = "error"]
    /\ UNCHANGED <<writerVars, config, console_client, database_client, files_client,
                   connection, channel, consumer_tag, service_tag, running,
                   restart_requested, main, shutdown, manager_config, broker, queue,
                   service_queue, msgs, acked, deliv, nextDeliv, reloads,
                   reload_data, managerVars, sinkVars>>

\* the database server goes down or comes back
ServerFlip ==
    /\ db' = [db EXCEPT !.up = ~@]
    /\ UNCHANGED <<writerVars, config, console_client, database_client, files_client,
                   connection, channel, consumer_tag, service_tag, running,
                   restart_requested, main, shutdown, manager_config, broker, queue,
                   service_queue, msgs, acked, deliv, nextDeliv, reloads,
                   reload_data, managerVars, sinkVars>>

\* ------------------------------------------------------- specifications
\* RabbitMQConsumer.__init__, and a broker with empty queues
ConsumerInitFrom(docs) ==
    /\ config \in docs
    /\ manager_config = config
    /\ console_client = FALSE
    /\ database_client = FALSE
    /\ files_client = 0
    /\ connection = FALSE
    /\ channel = 0
    /\ consumer_tag = FALSE
    /\ service_tag = FALSE
    /\ running = FALSE
    /\ restart_requested = FALSE
    /\ shutdown = FALSE
    /\ broker = [open |-> {}, log_sub |-> 0, service_sub |-> 0, last |-> 0]
    /\ queue = <<>>
    /\ service_queue = <<>>
    /\ msgs = <<>>
    /\ acked = {}
    /\ deliv = [i \in DeliveryIds |-> NoDelivery]
    /\ nextDeliv = 1
    /\ reloads = 0
    /\ reload_data = NoData
    /\ database_models = <<>>
    /\ generated = 0
    /\ db_clients = <<>>

ConsumerInit == ConsumerInitFrom(ServerConfigs)

\* config.py has been imported from the config.json of the consumer's
\* configuration, nothing has subscribed; the database client is new
SideInit ==
    /\ config_file = FileOf(Dump(config))
    /\ notified = <<>>
    /\ cm = IdleManager
    /\ db = NewClient

\* no file has been written, no call has been made
WriterInit ==
    /\ disk = <<>>
    /\ archives = <<>>
    /\ ticks = 0
    /\ faults = 0
    /\ closes = 0
    /\ calls = [i \in CallIds |-> IdleCall]
    /\ nextCall = 1

\* The file sink on its own: a Writer of one of the sample configurations
\* (archiving disabled), driven by one caller that awaits each call.
Init ==
    /\ WriterInit
    /\ ConsumerInit
    /\ SideInit
    /\ config = Doc(TRUE, TRUE, TRUE)
    /\ main = [pc |-> "exited", after |-> "none"]
    /\ tz \in TzOffsets
    /\ clock = StartLocal - tz
    /\ \E c \in FilesConfigs :
         /\ ~c.archive.enabled
         /\ c.rotation.trigger # "daily" => tz = 0
         /\ writers = [w \in WriterIds |-> IF w = TestWriter THEN NewWriter(c)
                                           ELSE NoWriter]
    /\ nextWriter = TestWriter + 1

Next ==
    \/ \E p \in Projects : WriteLog(p)
    \/ \E p \in Projects : Close(p)
    \/ CloseAll
    \/ \E d \in TickSteps(writers[TestWriter].cfg.rotation.trigger) : Tick(d)

Spec == Init /\ [][Next]_vars

\* The log files earlier runs left in the directory of p1, with the rank of
\* their modification times: OldB was modified a day ago, OldC three days
\* ago, OldA has the oldest name and was modified ten seconds ago.
OldA == [project |-> "p1", stamp |-> StartLocal - 2 * Day]
OldB == [project |-> "p1", stamp |-> StartLocal - Day]
OldC == [project |-> "p1", stamp |-> StartLocal - 3 * Day]
OldMtime(f) == IF f = OldA THEN StartLocal - 10 ELSE f.stamp
OldDisk(files) ==
    [f \in files |->
        [content |-> <<Header, Line(0), Footer(1)>>,
         mtime |-> OldMtime(f),
         mrank |-> 1 + Cardinality({g \in files : OldMtime(g) < OldMtime(f)})]]
ArchiveTickSteps == {1, ArchiveAge + 1}

\* The file sink with archiving enabled: rotation by lines, every archive
\* type and trigger, a log directory that may hold files of earlier runs,
\* and close_all() arriving from stop() at any moment.
InitArchive ==
    /\ archives = <<>>
    /\ ticks = 0
    /\ faults = 0
    /\ closes = 0
    /\ calls = [i \in CallIds |-> IdleCall]
    /\ nextCall = 1
    /\ ConsumerInit
    /\ SideInit
    /\ config = Doc(TRUE, TRUE, TRUE)
    /\ main = [pc |-> "exited", after |-> "none"]
    /\ tz = 0
    /\ clock = StartLocal
    /\ \E c \in FilesConfigs, old \in {{}, {OldB}, {OldA, OldB}, {OldA, OldB, OldC}} :
         /\ c.archive.enabled
         /\ c.rotation.trigger = "lines"
         /\ writers = [w \in WriterIds |-> IF w = TestWriter THEN NewWriter(c)
                                           ELSE NoWriter]
         /\ disk = OldDisk(old)
    /\ nextWriter = TestWriter + 1

NextArchive ==
    \/ \E p \in Projects : nextCall <= MaxArchiveCalls /\ WriteLog(p)
    \/ \E id \in CallIds : DoArchive(id)
    \/ \E id \in CallIds : ArchiveResume(id)
    \/ \E p \in Projects : nextCall <= MaxArchiveCalls /\ Sweep(p)
    \/ closes < MaxArchiveCloses /\ StopCloseAll
    \/ \E d \in ArchiveTickSteps : ticks < MaxArchiveTicks /\ Tick(d)

SpecArchive == InitArchive /\ [][NextArchive]_vars

\* write_log awaited by a callback task of its own while earlier calls may
\* be suspended in run_in_executor: the consumer's callbacks share one Writer
\* and the event loop runs another callback whenever one awaits
ConcurrentWriteLog(p) ==
    /\ nextCall <= MaxOverlapCalls
    /\ \E fault \in FaultKinds :
         LET c0 == [IdleCall EXCEPT !.project = p, !.writer = TestWriter]
             r == EntryStage(WState(TestWriter), c0, nextCall, fault)
         IN /\ fault # "none" =>
                 /\ faults < MaxFaults
                 /\ r # EntryStage(WState(TestWriter), c0, nextCall, "none")
            /\ Commit(TestWriter, r.s)
            /\ calls' = [calls EXCEPT ![nextCall] = r.c]
            /\ faults' = faults + IF fault = "none" THEN 0 ELSE 1
    /\ nextCall' = nextCall + 1
    /\ UNCHANGED <<clock, tz, ticks, closes, nextWriter, consumerVars>>

\* The file sink with archiving by count and rotation by lines, a log
\* directory that holds files of earlier runs, and write_log calls that
\* overlap: a call may start while the sweep of an earlier one awaits the
\* executor.
InitOverlap ==
    /\ archives = <<>>
    /\ ticks = 0
    /\ faults = 0
    /\ closes = 0
    /\ calls = [i \in CallIds |-> IdleCall]
    /\ nextCall = 1
    /\ ConsumerInit
    /\ SideInit
    /\ config = Doc(TRUE, TRUE, TRUE)
    /\ main = [pc |-> "exited", after |-> "none"]
    /\ tz = 0
    /\ clock = StartLocal
    /\ \E c \in FilesConfigs, old \in {{OldA, OldB}, {OldA, OldB, OldC}} :
         /\ c.archive.enabled
         /\ c.archive.trigger = "count"
         /\ c.rotation.trigger = "lines"
         /\ writers = [w \in WriterIds |-> IF w = TestWriter THEN NewWriter(c)
                                           ELSE NoWriter]
         /\ disk = OldDisk(old)
    /\ nextWriter = TestWriter + 1

NextOverlap ==
    \/ \E p \in Projects : ConcurrentWriteLog(p)
    \/ \E id \in CallIds : DoArchive(id)
    \/ \E id \in CallIds : ArchiveResume(id)
    \/ ticks < MaxArchiveTicks /\ Tick(1)

SpecOverlap == InitOverlap /\ [][NextOverlap]_vars

\* The consumer: run_forever, the callbacks of the two queues, the broker,
\* the publishers and the config API.
InitConsumer ==
    /\ WriterInit
    /\ ConsumerInit
    /\ SideInit
    /\ main = [pc |-> "init_clients", after |-> "none"]
    /\ tz = 0
    /\ clock = StartLocal
    /\ writers = [w \in WriterIds |-> NoWriter]
    /\ nextWriter = 1

NextConsumer ==
    \/ \E body \in LogBodies : Publish(body)
    \/ Deliver
    \/ \E id \in DeliveryIds : CallbackStart(id)
    \/ \E id \in DeliveryIds : DbReturn(id)
    \/ \E id \in DeliveryIds : CallbackCancelled(id)
    \/ StartInitClients
    \/ StartConnect
    \/ StartConsumeLog
    \/ StartConsumeService
    \/ LoopWake
    \/ StopCancelLog(FALSE)
    \/ StopCancelService(FALSE)
    \/ StopChannel(FALSE)
    \/ StopConnection(FALSE)
    \/ StopFiles(FALSE)
    \/ Shutdown
    \/ ServiceDeliver
    \/ \E doc \in ServerConfigs : ApiUpdateConfig(doc)
    \/ \E body \in ServiceBodies : PublishService(body)

SpecConsumer == InitConsumer /\ [][NextConsumer]_vars

\* The life cycle of the consumer on its own: start, reload, stop and
\* shutdown with no log traffic, every teardown step of stop free to fail.
NextLifecycle ==
    \/ StartInitClients
    \/ StartConnect
    \/ StartConsumeLog
    \/ StartConsumeService
    \/ LoopWake
    \/ \E fail \in BOOLEAN : StopCancelLog(fail)
    \/ \E fail \in BOOLEAN : StopCancelService(fail)
    \/ \E fail \in BOOLEAN : StopChannel(fail)
    \/ \E fail \in BOOLEAN : StopConnection(fail)
    \/ \E fail \in BOOLEAN : StopFiles(fail)
    \/ Shutdown
    \/ ServiceDeliver
    \/ \E doc \in ServerConfigs : ApiUpdateConfig(doc)
    \/ \E body \in ServiceBodies : PublishService(body)

SpecLifecycle == InitConsumer /\ [][NextLifecycle]_vars

\* The reload path on its own: the consumer starts and restarts with no log
\* traffic, PUT /config may fail to publish its signal, and the service
\* callback may run while start is suspended in the await of consume.
MainStep ==
    \/ StartInitClients
    \/ StartConnect
    \/ StartConsumeLog
    \/ StartAttachService
    \/ StartReturn
    \/ LoopWake
    \/ StopCancelLog(FALSE)
    \/ StopCancelService(FALSE)
    \/ StopChannel(FALSE)
    \/ StopConnection(FALSE)
    \/ StopFiles(FALSE)

NextSignal ==
    \/ MainStep
    \/ ServiceDeliver
    \/ \E doc \in ServerConfigs, sendFails \in BOOLEAN : PutConfig(doc, sendFails)

SpecSignal == InitConsumer /\ [][NextSignal]_vars

\* The event loop runs a task that is ready: the main task takes its next
\* step, and a message of the service queue is handed to its callback while
\* the subscription lasts.
SpecSignalFair == SpecSignal /\ WF_vars(MainStep) /\ WF_vars(ServiceDeliver)

\* A reload that disables the file sink: the consumer starts with every
\* sink enabled and PUT /config stores a document with files.enabled false.
FilesOffDoc == Doc(TRUE, TRUE, FALSE)

InitReload ==
    /\ InitConsumer
    /\ config = Doc(TRUE, TRUE, TRUE)

NextReload ==
    \/ \E body \in LogBodies : Publish(body)
    \/ Deliver
    \/ \E id \in DeliveryIds : CallbackStart(id)
    \/ \E id \in DeliveryIds : DbReturn(id)
    \/ \E id \in DeliveryIds : CallbackCancelled(id)
    \/ StartInitClients
    \/ StartConnect
    \/ StartConsumeLog
    \/ StartConsumeService
    \/ LoopWake
    \/ StopCancelLog(FALSE)
    \/ StopCancelService(FALSE)
    \/ StopChannel(FALSE)
    \/ StopConnection(FALSE)
    \/ StopFiles(FALSE)
    \/ Shutdown
    \/ ServiceDeliver
    \/ ApiUpdateConfig(FilesOffDoc)

SpecReload == InitReload /\ [][NextReload]_vars

\* A slow database sink: the consumer runs with the database and the
\* console sink, a publisher fills the log queue, and the inserts stall.
InitStall ==
    /\ WriterInit
    /\ ConsumerInitFrom({FilesOffDoc})
    /\ SideInit
    /\ main = [pc |-> "init_clients", after |-> "none"]
    /\ tz = 0
    /\ clock = StartLocal
    /\ writers = [w \in WriterIds |-> NoWriter]
    /\ nextWriter = 1

NextStall ==
    \/ PublishUpTo(GoodBody("p1"), MaxInFlight)
    \/ DeliverUpTo(MaxInFlight)
    \/ \E id \in DeliveryIds : CallbackStart(id)
    \/ \E id \in DeliveryIds :
          /\ Cardinality({j \in DeliveryIds : deliv[j].pc = "done"}) < MaxStallReturns
          /\ DbReturn(id)
    \/ StartInitClients
    \/ StartConnect
    \/ StartConsumeLog
    \/ StartConsumeService

SpecStall == InitStall /\ [][NextStall]_vars

\* The validator over decoded bodies: the bodies of LogBodies and a body that
\* has the seven fields of MessageValidate within bounds and one more
\* top-level key. The consumer runs with the database and the console sink.
ExtraKeyBody == [GoodBody("p1") EXCEPT !.extra_key = TRUE]
ValidateBodies == LogBodies \cup {ExtraKeyBody}

InitValidate ==
    /\ WriterInit
    /\ ConsumerInitFrom({FilesOffDoc})
    /\ SideInit
    /\ main = [pc |-> "init_clients", after |-> "none"]
    /\ tz \in TzOffsets
    /\ clock = StartLocal
    /\ writers = [w \in WriterIds |-> NoWriter]
    /\ nextWriter = 1

NextValidate ==
    \/ \E body \in ValidateBodies : Publish(body)
    \/ Deliver
    \/ \E id \in DeliveryIds : CallbackStart(id)
    \/ \E id \in DeliveryIds : DbReturn(id)
    \/ StartInitClients
    \/ StartConnect
    \/ StartConsumeLog
    \/ StartConsumeService

SpecValidate == InitValidate /\ [][NextValidate]_vars

\* The config manager: the import of config.py over any config.json, then
\* subscriptions and update_config calls. Before the import there is no
\* manager; manager_config holds its snapshot once Boot has run.
InitConfig ==
    /\ WriterInit
    /\ ConsumerInitFrom({Doc(TRUE, TRUE, TRUE)})
    /\ main = [pc |-> "exited", after |-> "none"]
    /\ tz = 0
    /\ clock = StartLocal
    /\ writers = [w \in WriterIds |-> NoWriter]
    /\ nextWriter = 1
    /\ config_file \in {FileAbsent, FileGarbage} \cup {FileOf(raw) : raw \in RawDocs}
    /\ notified = <<>>
    /\ cm = [IdleManager EXCEPT !.pc = "boot"]
    /\ db = NewClient

NextConfig ==
    \/ Boot
    \/ Subscribe
    \/ \E raw \in RawDocs : UpdateConfig(raw)
    \/ NotifySubscriber
    \/ SaveConfig

SpecConfig == InitConfig /\ [][NextConfig]_vars

\* The database client: calls of the application, a server that goes down
\* and comes back, a clock that passes the reconnect intervals.
DbTickSteps == {1, ShortInterval * 60 + 1, ReconnectMinutes * 60 + 1}

InitDatabase ==
    /\ WriterInit
    /\ ConsumerInitFrom({Doc(TRUE, TRUE, TRUE)})
    /\ SideInit
    /\ main = [pc |-> "exited", after |-> "none"]
    /\ tz = 0
    /\ clock = StartLocal
    /\ writers = [w \in WriterIds |-> NoWriter]
    /\ nextWriter = 1

NextDatabase ==
    \/ ConnectState
    \/ InsertLog
    \/ Disconnect
    \/ \E m \in {ShortInterval, ReconnectMinutes}, state \in BOOLEAN :
          AddTimerReconnect(m, state)
    \/ ServerFlip
    \/ \E d \in DbTickSteps : Tick(d)

SpecDatabase == InitDatabase /\ [][NextDatabase]_vars

\* ----------------------------------------------- properties: the consumer
\* a decoded body with a field out of the bounds of LogRecord
OutOfBounds(body) ==
    /\ body.json
    /\ \/ body.missing
       \/ body.code < 0 \/ body.code > 999999
       \/ body.level \notin {"info", "warning", "error", "fatal", "debug", "alert",
                             "unknown"}
       \/ body.project_len < 1 \/ body.project_len > 100 \/ ~body.project_pattern
       \/ ~body.timestamp_iso
       \/ body.module_len > 100 \/ body.function_len > 100 \/ body.message_len > 1000

\* a body that decodes to a LogRecord
WellFormed(body) == body.json /\ ~OutOfBounds(body)

\* the sinks the consumer's configuration enables
ConfiguredSinks ==
    (IF config.timescaledb.enabled THEN {"db"} ELSE {}) \cup
    (IF config.console.enabled THEN {"console"} ELSE {}) \cup
    (IF config.files.enabled THEN {"files"} ELSE {})

InQueue(m) == \E i \in 1..Len(queue) : queue[i] = m

Started(id) == deliv[id].pc # "none"

\* C1: a delivery whose decoded body fails the validation of LogRecord reaches
\* no sink (database, console, files), and once its callback has returned on
\* a channel that is still open the message is acknowledged and is not back
\* in the queue.
C1_InvalidDroppedWithoutSink ==
    \A id \in DeliveryIds :
        (Started(id) /\ OutOfBounds(msgs[deliv[id].msg])) =>
            /\ deliv[id].offered = {}
            /\ (deliv[id].pc = "done" /\ deliv[id].ch \in broker.open) =>
                   /\ deliv[id].acked
                   /\ deliv[id].msg \in acked
                   /\ ~InQueue(deliv[id].msg)

C1_Witness ==
    \E id \in DeliveryIds :
        /\ Started(id)
        /\ msgs[deliv[id].msg].json /\ msgs[deliv[id].msg].code = 10000000
        /\ deliv[id].pc = "done" /\ deliv[id].acked
        /\ ConfiguredSinks = Sinks

\* C2: a delivery is acknowledged only when its callback has returned and
\* every sink call made for it has returned (none is acknowledged while a sink
\* call is pending); a delivery whose body is not JSON is never offered
\* to a sink and is acknowledged when its callback returns on an open channel.
C2_AckAfterSinksReturned ==
    \A id \in DeliveryIds :
        /\ deliv[id].acked =>
              /\ deliv[id].pc = "done"
              /\ deliv[id].returned = deliv[id].offered
        /\ (Started(id) /\ ~msgs[deliv[id].msg].json) =>
              /\ deliv[id].offered = {}
              /\ (deliv[id].pc = "done" /\ deliv[id].ch \in broker.open) =>
                     deliv[id].acked

C2_Witness ==
    /\ \E id \in DeliveryIds :
          /\ deliv[id].acked /\ deliv[id].returned = Sinks
          /\ WellFormed(msgs[deliv[id].msg])
    /\ \E id \in DeliveryIds :
          Started(id) /\ ~msgs[deliv[id].msg].json /\ deliv[id].acked

\* C3: when sinks raised for a valid record, every sink of the configuration
\* was still called for it, the exception did not leave the callback, and on
\* an open channel the delivery was acknowledged.
C3_RaisingSinkIsolated ==
    \A id \in DeliveryIds :
        (deliv[id].raised # {} /\ deliv[id].pc = "done"
         /\ deliv[id].ch \in broker.open) =>
            /\ ConfiguredSinks \subseteq deliv[id].offered
            /\ ~deliv[id].escaped
            /\ deliv[id].acked

C3_Witness ==
    \E id \in DeliveryIds :
        /\ deliv[id].raised = {"db", "console"}
        /\ "files" \in deliv[id].returned
        /\ deliv[id].acked
        /\ \E path \in DOMAIN disk :
             \E i \in 1..Len(disk[path].content) : disk[path].content[i] = Line(id)

\* C5: two valid records of one project, delivered on one channel in the
\* order A then B, have their lines in the files in that order: in one file
\* A's line is above B's line.
C5_FileOrderIsConsumptionOrder ==
    \A path \in DOMAIN disk :
        \A i, j \in 1..Len(disk[path].content) :
            LET a == disk[path].content[i]
                b == disk[path].content[j]
            IN (i < j /\ a.k = "L" /\ b.k = "L"
                /\ deliv[a.r].ch = deliv[b.r].ch) => a.r < b.r

\* C6, each published record is in the queue, or held unacknowledged by a
\* delivery on an open channel, or acknowledged
C6_NoRecordLost ==
    \A m \in 1..Len(msgs) :
        \/ m \in acked
        \/ InQueue(m)
        \/ \E id \in DeliveryIds :
              /\ Started(id) /\ deliv[id].msg = m
              /\ ~deliv[id].acked /\ deliv[id].ch \in broker.open

\* C6, a step that acknowledges a valid record: every sink the configuration
\* enables has been called for this delivery and has returned
C6_AckStep ==
    \A id \in DeliveryIds :
        (deliv'[id].acked /\ ~deliv[id].acked /\ WellFormed(msgs[deliv'[id].msg])) =>
            /\ ConfiguredSinks \subseteq deliv'[id].offered
            /\ deliv'[id].returned = deliv'[id].offered

WriteStep(p) ==
    /\ nextCall' = nextCall + 1
    /\ calls'[nextCall].project = p
    /\ faults' = faults

\* project p has an open current file before the step
HasOpenFile(p) ==
    /\ p \in DOMAIN writers[TestWriter].handle
    /\ ~writers[TestWriter].handle[p].closed
    /\ writers[TestWriter].data[p].path \in DOMAIN disk

CurrentPath(p) == writers[TestWriter].data[p].path

RECURSIVE CountOf(_, _)
\* how many entries of the content are equal to e
CountOf(content, e) ==
    IF content = <<>> THEN 0
    ELSE (IF Head(content) = e THEN 1 ELSE 0) + CountOf(Tail(content), e)

RECURSIVE CountKind(_, _)
\* how many entries of the content are of kind k ("H", "L", "F")
CountKind(content, k) ==
    IF content = <<>> THEN 0
    ELSE (IF Head(content).k = k THEN 1 ELSE 0) + CountKind(Tail(content), k)

EndsWithFooter(content) == content # <<>> /\ content[Len(content)].k = "F"

\* the step appends a footer to the file that was current for p before it
Footered(p) ==
    /\ CurrentPath(p) \in DOMAIN disk'
    /\ CountKind(disk'[CurrentPath(p)].content, "F")
         > CountKind(disk[CurrentPath(p)].content, "F")

\* C4, one step: a write_log call that returns success has appended exactly
\* one line for its record to the file that the project's state names as
\* current
C4_Step ==
    \A p \in Projects :
        (nextCall' = nextCall + 1 /\ calls'[nextCall].project = p
         /\ calls'[nextCall].ret = "ok") =>
            LET cur == writers'[TestWriter].data[p].path
            IN /\ cur \in DOMAIN disk'
               /\ CountOf(disk'[cur].content, Line(nextCall)) = 1
               /\ \A other \in DOMAIN disk' \ {cur} :
                     CountOf(disk'[other].content, Line(nextCall)) = 0

\* C4: whenever write_log returns success for a record of project P, exactly
\* one line for the record has been appended to the file at P's current
\* path, after any earlier writes, rotations and failed opens.
C4_SuccessMeansLineInCurrentFile == [][C4_Step]_vars

\* C7, one step: a file that ends with a footer is not appended to
C7_Step ==
    \A path \in DOMAIN disk :
        (EndsWithFooter(disk[path].content) /\ path \in DOMAIN disk') =>
            disk'[path].content = disk[path].content

\* C7: once the footer of a file has been written by a rotation or a close,
\* nothing more (no line, no header, no second footer) is appended to it.
C7_NothingAfterFooter == [][C7_Step]_vars

\* C8: with the lines trigger N, after K writes of one project in a run
\* without I/O errors and closes there are ceil(K/N) files; the current one
\* starts with a header, has no footer and holds the K - N*(files - 1) last
\* lines; every other one holds N lines and ends with its only footer.
C8_LinesRotationFileCount ==
    \A p \in Projects :
        LET K == nextCall - 1
            N == writers[TestWriter].cfg.rotation.lines
            files == LogFiles(disk, p)
        IN (/\ writers[TestWriter].cfg.rotation.trigger = "lines"
            /\ faults = 0 /\ closes = 0 /\ K >= 1
            /\ \A i \in 1..K : calls[i].project = p) =>
               /\ Cardinality(files) = (K + N - 1) \div N
               /\ \A f \in files :
                     IF f = CurrentPath(p)
                     THEN /\ disk[f].content[1].k = "H"
                          /\ CountKind(disk[f].content, "F") = 0
                          /\ CountKind(disk[f].content, "L")
                               = K - N * (Cardinality(files) - 1)
                     ELSE /\ CountKind(disk[f].content, "L") = N
                          /\ CountKind(disk[f].content, "F") = 1
                          /\ EndsWithFooter(disk[f].content)

\* C9, one step: a write that footers the current file of p and opens a file
\* leaves p with a path that differs from the footered one
C9_Step ==
    \A p \in Projects :
        (WriteStep(p) /\ HasOpenFile(p) /\ Footered(p)) =>
            writers'[TestWriter].data[p].path # CurrentPath(p)

\* C9: every rotation of project P opens a file whose path differs from the
\* path of the file that was just footered, also when two rotations happen
\* within one second.
C9_RotationOpensFreshPath == [][C9_Step]_vars

\* C10, one step: under the time trigger a write for a project with an open
\* file rotates iff the file has been open for rotation.time seconds, and a
\* write before that appends its line to the current file and returns success
C10_Step ==
    \A p \in Projects :
        (/\ writers[TestWriter].cfg.rotation.trigger = "time"
         /\ WriteStep(p) /\ HasOpenFile(p)) =>
            LET due == clock - writers[TestWriter].data[p].date_start.t
                         >= writers[TestWriter].cfg.rotation.time
            IN /\ Footered(p) <=> due
               /\ ~due =>
                    /\ calls'[nextCall].ret = "ok"
                    /\ writers'[TestWriter].data[p].path = CurrentPath(p)
                    /\ disk'[CurrentPath(p)].content
                         = Append(disk[CurrentPath(p)].content, Line(nextCall))

\* C10: with the time trigger, a write rotates the project's file before
\* appending iff now - opened_at >= rotation.time; an earlier write is
\* appended to the current file without rotation and returns success.
C10_TimeTriggerThreshold == [][C10_Step]_vars

\* the instant of date_start on the wall clock that _should_rotate reads
OpenedLocal(p) ==
    IF writers[TestWriter].data[p].date_start.aware
    THEN writers[TestWriter].data[p].date_start.t + tz
    ELSE writers[TestWriter].data[p].date_start.t

\* C11, one step: under the daily trigger a write for a project with an open
\* file rotates iff the wall clock shows rotation.daily and the file was
\* opened on another date of that clock
C11_Step ==
    \A p \in Projects :
        (/\ writers[TestWriter].cfg.rotation.trigger = "daily"
         /\ WriteStep(p) /\ HasOpenFile(p)) =>
            (Footered(p) <=>
                /\ MinuteOfDay(LocalNow) = writers[TestWriter].cfg.rotation.daily
                /\ DateOf(OpenedLocal(p)) # DateOf(LocalNow))

\* C11: with the daily trigger, a write rotates the file iff the wall-clock
\* HH:MM equals rotation.daily and the date the file was opened on differs
\* from the current date, both dates taken on the same clock.
C11_DailyTriggerSameClock == [][C11_Step]_vars

\* ------------------------------------------- properties: the archive sweep
\* the rotated log files of project p: its *.log files but the active one
RotatedIn(d, data, p) ==
    LogFiles(d, p) \ (IF p \in DOMAIN data THEN {data[p].path} ELSE {})
Rotated(p) == RotatedIn(disk, writers[TestWriter].data, p)
RotatedAfter(p) == RotatedIn(disk', writers'[TestWriter].data, p)

\* the archive directory holds an archive of f with the content f had
ArchivedWhole(ar, type, f, content) ==
    /\ [src |-> f, type |-> type] \in DOMAIN ar
    /\ ar[[src |-> f, type |-> type]] = [content |-> content, complete |-> TRUE]

\* the step ends, without an injected I/O error, a sweep over the files of p:
\* a write_log that opened a file returns, or check_old_logfile returns
SweepEnds(p) ==
    /\ faults' = 0
    /\ \E id \in CallIds :
         /\ calls'[id].project = p
         /\ calls'[id].pc = "done"
         /\ calls[id].pc # "done"
         /\ calls'[id].phase \in {"first", "rotate", "sweep"}
         /\ p \in writers'[TestWriter].archive_dir

\* C12, one step under the count trigger of a run without injected I/O error
C12_Step ==
    \A p \in Projects :
        (writers[TestWriter].cfg.archive.trigger = "count" /\ faults' = 0) =>
            /\ \A f \in LogFiles(disk, p) \ LogFiles(disk', p) :
                 /\ f \in Rotated(p)
                 /\ ArchivedWhole(archives', writers[TestWriter].cfg.archive.type,
                                  f, disk[f].content)
                 /\ \A g \in RotatedAfter(p) : disk'[g].mrank > disk[f].mrank
                 /\ Cardinality(RotatedAfter(p)) >= writers[TestWriter].cfg.archive.count
            /\ \A g \in Rotated(p) \cap RotatedAfter(p) : disk'[g] = disk[g]
            /\ SweepEnds(p) =>
                 Cardinality(RotatedAfter(p)) <= writers[TestWriter].cfg.archive.count

\* C12: a count sweep over n rotated log files of a project, the active file
\* excluded, archives exactly the n - archive.count files of the oldest
\* modification times when n > archive.count, leaves the archive.count newest
\* ones and the active file untouched, and archives nothing when
\* n <= archive.count.
C12_CountSweepArchivesOldest == [][C12_Step]_vars

\* C12 for the archive types that do_archive has a branch for
C12_Step_NoTar == writers[TestWriter].cfg.archive.type # "tar" => C12_Step
C12_NoTar == [][C12_Step_NoTar]_vars

\* C13, one step: a log file leaves the log directory only when the archive
\* directory holds an archive with the content the file had
C13_Step ==
    \A f \in DOMAIN disk \ DOMAIN disk' :
        ArchivedWhole(archives', writers[TestWriter].cfg.archive.type, f, disk[f].content)

\* C13: for every archive type (zip, gz, bz2, xz, tar) the source log file is
\* deleted only after an archive holding its content has been written; when
\* the archive write fails or writes nothing the source is kept in the log
\* directory, where the next sweep finds it again.
C13_SourceDeletedOnlyAfterArchive == [][C13_Step]_vars

\* C13 for the archive types that do_archive has a branch for
C13_Step_NoTar == writers[TestWriter].cfg.archive.type # "tar" => C13_Step
C13_NoTar == [][C13_Step_NoTar]_vars

\* C14: the write_log call that triggers a rotation appends its line and
\* returns without waiting for the archival to finish: no write_log call is
\* ever suspended until the archive of a rotated file has been written.
C14_WriteDoesNotWaitForArchival ==
    \A id \in CallIds :
        (calls[id].pc = "archiving" /\ calls[id].phase \in {"first", "rotate"}) =>
            calls[id].ret = "ok"

\* the step is a check_old_logfile(p) call that comes right after a call
\* that ran the sweep over the files of p to its end (check_old_logfile
\* itself, or the write_log that opened a file), in a run without injected
\* I/O error
SecondSweep(p) ==
    /\ nextCall > 1
    /\ nextCall' = nextCall + 1
    /\ calls'[nextCall].phase = "sweep"
    /\ calls'[nextCall].project = p
    /\ calls[nextCall - 1].phase \in {"first", "rotate", "sweep"}
    /\ calls[nextCall - 1].project = p
    /\ calls[nextCall - 1].ret = "ok"
    /\ faults = 0

\* the second sweep finds nothing to archive
SweepChangesNothing ==
    /\ calls'[nextCall].pc = "done"
    /\ calls'[nextCall].ret = "ok"
    /\ disk' = disk
    /\ archives' = archives

C15_Step_AnyTime == \A p \in Projects : SecondSweep(p) => SweepChangesNothing

C15_Step ==
    \A p \in Projects :
        (/\ SecondSweep(p)
         /\ writers[TestWriter].cfg.archive.trigger = "age" =>
                calls[nextCall - 1].sweepNow = clock) => SweepChangesNothing

CloseAllStep == closes' = closes + 1 /\ faults = 0

\* every project whose handle was open has its footer written and its
\* handle closed after the step
C16_Footered ==
    \A p \in DOMAIN writers[TestWriter].handle :
        ~writers[TestWriter].handle[p].closed =>
            /\ writers'[TestWriter].handle[p].closed
            /\ CurrentPath(p) \in DOMAIN disk'
            /\ EndsWithFooter(disk'[CurrentPath(p)].content)

\* no call is suspended in run_in_executor after the step
C16_NoArchival == \A id \in CallIds : calls'[id].pc # "archiving"

C16_Step == CloseAllStep => (C16_Footered /\ C16_NoArchival)

\* C16: when close_all returns, every project that had an open handle has
\* its footer written and its handle closed, and no archival that the sink
\* started is still running.
C16_CloseAllLeavesNothingRunning == [][C16_Step]_vars

\* C16, the part about the handles alone
C16_HandlesFooteredAndClosed == [][CloseAllStep => C16_Footered]_vars

\* ------------------------------------------- properties: reload and shutdown
\* the step is the delivery of the oldest body of the service queue
ServiceStep == service_queue # <<>> /\ service_queue' = Tail(service_queue)

C17_Step ==
    ServiceStep =>
        LET body == Head(service_queue)
        IN IF body.json /\ (body.code = 100 \/ body.detail = "Update config")
           THEN restart_requested' /\ ~running'
           ELSE UNCHANGED <<restart_requested, running, consumer_tag, service_tag,
                            broker, console_client, database_client, files_client,
                            writers, config>>

\* C17: a delivery on the control queue sets restart_requested and releases
\* the loop iff the decoded body has code = 100 or detail = "Update config";
\* every other control message, of another code or undecodable, leaves
\* restart_requested, running, the subscriptions and the sinks unchanged.
C17_ReloadSignalOnly == [][C17_Step]_vars

\* a signal without a document has been taken while the consumer was running
C17_Witness ==
    /\ main.pc = "loop"
    /\ restart_requested /\ ~running
    /\ reloads = 1 /\ service_queue = <<>>
    /\ reload_data = NoData
    /\ manager_config = config

\* the consumer is Running again after the reload a signal with a valid
\* document asked for: start() has reset the flags the signal had set
RunningAfterReload ==
    /\ main.pc = "loop"
    /\ running /\ ~restart_requested
    /\ reload_data \in ServerConfigs

\* C18: after a reload signal whose data is a valid configuration document
\* D, the consumer that is Running again has D as its active configuration
\* and the sinks of D, whatever the config manager held when the signal
\* arrived.
C18_ReloadAppliesPayload ==
    RunningAfterReload =>
        /\ config = reload_data
        /\ console_client = reload_data.console.enabled
        /\ database_client = reload_data.timescaledb.enabled
        /\ (files_client # 0) = reload_data.files.enabled

\* C18 for the signals the config API publishes after it has stored the
\* document in the config manager
C18_ViaManager ==
    (RunningAfterReload /\ manager_config = reload_data) =>
        /\ config = reload_data
        /\ console_client = reload_data.console.enabled
        /\ database_client = reload_data.timescaledb.enabled
        /\ (files_client # 0) = reload_data.files.enabled

\* a delivery callback is between its validation and its acknowledgement:
\* suspended in a sink call
InFlight(id) == deliv[id].pc \in {"db", "files"}

\* the step is stop() closing the channel, or stop() closing the file sink
ClosingStep ==
    \/ channel # 0 /\ channel' = 0
    \/ main.pc = "stop_files" /\ main'.pc # "stop_files"

C19_Step == ClosingStep => \A id \in DeliveryIds : ~InFlight(id)

\* C19: on reload and on shutdown the channel and the file sink are closed
\* only after every in-flight delivery has finished all its sink calls: no
\* callback is still between validation and acknowledgement when stop()
\* closes the channel or footers and closes the file sink.
C19_StopDrainsCallbacks == [][C19_Step]_vars

\* a reload has closed the channel and the file sink while a callback was
\* suspended in the database insert
C19_ReloadClosedUnderCallback ==
    /\ main = [pc |-> "init_clients", after |-> "none"]
    /\ restart_requested
    /\ \E id \in DeliveryIds : InFlight(id)

\* every file handle a Writer of the consumer holds is footered and closed
AllHandlesClosed ==
    \A w \in WriterIds : \A p \in DOMAIN writers[w].handle :
        /\ writers[w].handle[p].closed
        /\ writers[w].data[p].path \in DOMAIN disk
        /\ EndsWithFooter(disk[writers[w].data[p].path].content)

\* the consumer has released everything stop() releases
Stopped ==
    /\ ~consumer_tag /\ ~service_tag
    /\ broker.log_sub = 0 /\ broker.service_sub = 0
    /\ channel = 0 /\ broker.open = {}
    /\ ~connection
    /\ AllHandlesClosed

\* C20: a shutdown signal (the cancellation of the consumer task) in any
\* lifecycle state, a requested reload and a restart in progress included,
\* ends with both subscriptions cancelled, the channel and the connection
\* closed and every open file handle footered and closed.
C20_ShutdownReleasesEverything == (shutdown /\ main.pc = "exited") => Stopped

\* C20 for the shutdown signals that arrive while no reload is requested, in
\* runs where start() did not fail
C20_PlainShutdown ==
    (shutdown /\ main.pc = "exited" /\ ~restart_requested /\ faults = 0) => Stopped

\* C20 in the runs where start() did not fail
C20_NoStartFailure == (shutdown /\ main.pc = "exited" /\ faults = 0) => Stopped

\* ------------------------------------------- properties: the life cycle
\* the positions of the main task inside stop()
StopPcs == {"stop_cancel_log", "stop_cancel_service", "stop_channel",
            "stop_connection", "stop_files"}

\* every field stop() clears is cleared
Cleared ==
    /\ ~running
    /\ ~consumer_tag /\ ~service_tag
    /\ channel = 0
    /\ ~connection
    /\ files_client = 0

\* the main task leaves stop() other than by a cancellation
StopEnds == main.pc \in StopPcs /\ main'.pc \notin StopPcs /\ shutdown' = shutdown

C21_Step == StopEnds => (main.pc = "stop_files" /\ Cleared')

\* C21: stop() never raises: for every combination of failing teardown
\* steps (the cancel of either subscription, the channel close, the
\* connection close, the file sink close) it runs to its last step and
\* returns with running false and consumer_tag, service_tag, channel,
\* connection and the file sink all cleared.
C21_StopNeverRaises == [][C21_Step]_vars

\* the stop() of a restart has returned although both cancels, the channel
\* close and the connection close failed: the broker still holds what they
\* should have released
C21_StopReturnedAfterFailures ==
    /\ main = [pc |-> "init_clients", after |-> "none"]
    /\ restart_requested
    /\ Cleared
    /\ broker.log_sub # 0 /\ broker.service_sub # 0 /\ broker.open # {}

\* start() fails: the broker is unreachable or a subscription is refused
StartFails ==
    /\ main.pc \in {"connect", "consume_log", "consume_service"}
    /\ faults' = faults + 1

\* the consumer holds nothing of a start: no connection, no channel, no
\* subscription
NoPartial ==
    /\ ~connection /\ channel = 0
    /\ ~consumer_tag /\ ~service_tag

C22_Step == StartFails => (~running' /\ (main'.pc = "exited" => NoPartial'))

\* C22: a start() that fails at any step leaves no partial behind, on the
\* first start and on the start inside a restart: running is false, and
\* where the failure ends the consumer task at once, with no stop() to
\* follow, no connection or channel is open and no subscription attached.
C22_FailedStartLeavesNoPartial == [][C22_Step]_vars

\* ------------------------------- properties: a reload that disables files
\* the consumer has taken a configuration with files.enabled false after it
\* had run with a file sink
ReloadedFilesOff == nextWriter > 1 /\ ~config.files.enabled

\* the callback of a valid record returns, not cancelled, in this step
CallbackReturns(id) ==
    /\ deliv[id].pc # "done" /\ deliv'[id].pc = "done"
    /\ ~deliv'[id].escaped
    /\ WellFormed(msgs[deliv'[id].msg])

C28_Step ==
    ReloadedFilesOff =>
        /\ disk' = disk
        /\ \A id \in DeliveryIds :
              CallbackReturns(id) => deliv'[id].offered = {"db", "console"}

Unacked == {id \in DeliveryIds : Started(id) /\ ~deliv[id].acked
                                  /\ deliv[id].ch \in broker.open}

\* C29: the number of log deliveries handed to the callback and not yet
\* acknowledged never exceeds the prefetch window, 10 by default.
C29_UnackedWithinPrefetch == Cardinality(Unacked) <= 10

\* --------------------------------------- properties: the config manager
\* the last update_config call has ended
ApplyDone == cm.pc = "idle" /\ cm.n > 0

\* a document the schema refuses
Refused(raw) == raw.extra \/ "bad" \in {raw.timescaledb, raw.console, raw.files}

\* the configuration the document of the last call stands for
FlagIn(v) == v # "false"
NewDoc == Doc(FlagIn(cm.data.timescaledb), FlagIn(cm.data.console), FlagIn(cm.data.files))

\* config.json decodes and validates to doc
FileHolds(file, doc) ==
    /\ file.kind = "json"
    /\ ~Refused(file.raw)
    /\ Doc(FlagIn(file.raw.timescaledb), FlagIn(file.raw.console), FlagIn(file.raw.files)) = doc

\* during the last call every subscriber was called once with doc, in order
AllNotified(doc) ==
    /\ Len(notified) = cm.mark + cm.nsubs
    /\ \A k \in 1..cm.nsubs :
          /\ notified[cm.mark + k].sub = k
          /\ notified[cm.mark + k].doc = doc
          /\ ~notified[cm.mark + k].raised

\* the last call took effect everywhere
AllNew ==
    /\ ~Refused(cm.data)
    /\ manager_config = NewDoc
    /\ FileHolds(config_file, NewDoc)
    /\ IF NewDoc # cm.old THEN AllNotified(NewDoc) ELSE Len(notified) = cm.mark

\* the last call took effect nowhere
AllOld ==
    /\ manager_config = cm.old
    /\ config_file = cm.oldfile
    /\ Len(notified) = cm.mark

\* C23: every update_config is all-or-nothing: when it has ended, the
\* snapshot, config.json and the subscribers all reflect the new document or
\* all reflect the previous one, also when a subscriber callback raises and
\* when writing config.json fails.
C23_ApplyAllOrNothing == ApplyDone => (AllNew \/ AllOld)

\* C24: for every document D that update_config accepts, once the call has
\* ended (and so after any sequence of calls, which the lock serialises) the
\* getter returns D and config.json decodes and validates to D.
C24_SnapshotAndFileAgree ==
    (ApplyDone /\ ~Refused(cm.data)) =>
        (manager_config = NewDoc /\ FileHolds(config_file, NewDoc))

\* a subscriber is called in this step
NotifyStep == Len(notified') = Len(notified) + 1

C25_Step ==
    NotifyStep =>
        /\ manager_config = NewDoc
        /\ FileHolds(config_file, NewDoc)
        /\ notified'[Len(notified')].doc = NewDoc

\* the part of C25 that does not depend on when config.json is written: a
\* call that returned has called every subscriber once, in order, with the
\* new configuration, or none when the document equals the snapshot
C25_EachOnceOrNone ==
    (ApplyDone /\ cm.result = "ok") =>
        IF NewDoc # cm.old THEN AllNotified(NewDoc) ELSE Len(notified) = cm.mark

\* C25: on update_config with a valid document that differs from the
\* snapshot, the snapshot is replaced, then the document is persisted, and
\* only then each subscriber is called exactly once with the new
\* configuration; with a document equal to the snapshot no subscriber is
\* called.
C25_PersistBeforeNotify == [][C25_Step]_vars /\ []C25_EachOnceOrNone

C26_Step ==
    (cm'.n = cm.n + 1 /\ Refused(cm'.data)) =>
        /\ cm'.result = "ValueError"
        /\ cm'.pc = "idle"
        /\ manager_config' = manager_config
        /\ config_file' = config_file
        /\ notified' = notified

\* C26: update_config with a document that fails validation returns an
\* error and changes nothing: the snapshot is retained, config.json is not
\* rewritten, no subscriber is called.
C26_InvalidChangesNothing == [][C26_Step]_vars

\* a document with an unknown key was refused after an earlier call had
\* replaced the snapshot and notified a subscriber
C26_Witness ==
    /\ ApplyDone
    /\ cm.result = "ValueError"
    /\ cm.data.extra
    /\ cm.n = 2
    /\ Len(notified) > 0

C27_Step ==
    (cm.pc = "boot" /\ cm'.pc # "boot") =>
        /\ cm'.pc = "idle"
        /\ \/ /\ FileHolds(config_file, manager_config')
              /\ config_file' = config_file
           \/ /\ config_file.kind # "json" \/ Refused(config_file.raw)
              /\ manager_config' = EnvDoc
              /\ FileHolds(config_file', EnvDoc)

\* C27: at startup the configuration is taken from config.json when the
\* file exists and validates; when it is absent or invalid the
\* environment-derived configuration is used and persisted to config.json;
\* startup succeeds in all three cases.
C27_StartupFromFileOrEnv == [][C27_Step]_vars

\* C27 for a config.json that exists and validates
C27_ValidFile ==
    [][(cm.pc = "boot" /\ cm'.pc # "boot" /\ config_file.kind = "json"
        /\ ~Refused(config_file.raw)) =>
          (cm'.pc = "idle" /\ FileHolds(config_file, manager_config')
           /\ config_file' = config_file)]_vars

\* -------------------------------------- properties: the database client
\* the step is a call of insert_log / of connect_state
WriteCall == db'.calls = db.calls + 1 /\ db'.last = "insert_log"
StateCall == db'.calls = db.calls + 1 /\ db'.last = "connect_state"

\* the reconnect interval has run out since the client's last check
TimerElapsed == Now - db.last_check > db.interval

\* neither the last check nor the last attempt to connect is older than the
\* reconnect interval
CheckedRecently ==
    /\ Now - db.last_check <= db.interval
    /\ Now - db.attempt <= db.interval

C30_Step ==
    /\ (WriteCall /\ ~db.connected /\ ~db.up /\ CheckedRecently) =>
          (db'.opens = db.opens /\ db'.result = "error")
    /\ (WriteCall /\ ~db.connected /\ TimerElapsed) => db'.opens > db.opens
    /\ (StateCall /\ db.connected /\ db.up /\ TimerElapsed) => db'.result = "ok"

\* C30: while the connection is lost (the client is not connected and the
\* server does not answer) a write returns an error without
\* re-opening the connection until the reconnect interval has run out since
\* the last check; once it has run out the connection is re-opened; a
\* connected client whose last check is older than the interval still
\* reports connected.
C30_ReconnectOnlyAfterTimer == [][C30_Step]_vars

\* the parts of C30 that hold: a write of a client that is not connected
\* tries to connect, and a connected client of a reachable server reports
\* connected whatever the age of its last check
C30_ReopensWhenLost ==
    [][/\ (WriteCall /\ ~db.connected) => db'.opens > db.opens
       /\ (StateCall /\ db.connected /\ db.up) => db'.result = "ok"]_vars


\* ------------------------------------------ properties: the validator's keys
\* C31: a decoded record that carries a top-level key outside project,
\* timestamp, level, module, function, message, code is rejected by the
\* validator, also when the seven fields are present and within bounds: its
\* delivery is offered to no sink.
C31_ExtraKeyRejected ==
    \A id \in DeliveryIds :
        (Started(id) /\ deliv[id].pc = "done" /\ msgs[deliv[id].msg].json
            /\ msgs[deliv[id].msg].extra_key) =>
            deliv[id].offered = {}


\* ------------------------------------- properties: I/O errors of the file sink
\* the step is a write_log call for p, the project has an open current file
\* that is not due for rotation, and the write or the flush of lines 223-224
\* raises
WriteErrorStep(p) ==
    /\ nextCall' = nextCall + 1
    /\ calls'[nextCall].project = p
    /\ faults' = faults + 1
    /\ HasOpenFile(p)
    /\ ShouldRotate(WState(TestWriter), p) = "no"
    /\ calls'[nextCall].ret = "fail"

\* C32, one step: a write_log call whose append raises leaves the project
\* without an open handle
C32_Step ==
    \A p \in Projects :
        WriteErrorStep(p) =>
            \/ p \notin DOMAIN writers'[TestWriter].handle
            \/ writers'[TestWriter].handle[p].closed

\* C32: when appending a record to P's file raises a write error, the
\* current handle is closed, so that the next write for P rotates to a new
\* file; the record that hit the error is dropped and is not appended later.
C32_WriteErrorClosesHandle == [][C32_Step]_vars

\* C33, one step: a write_log call for p appends its line only to the file
\* that P's state names as current when the call returns
C33_Step ==
    \A p \in Projects : \A path \in DOMAIN disk' :
        (/\ nextCall' = nextCall + 1
         /\ calls'[nextCall].project = p
         /\ CountOf(disk'[path].content, Line(nextCall)) > 0) =>
            path = writers'[TestWriter].data[p].path

\* C33: when opening a file for P fails (for the first record or during a
\* rotation) P's file state is torn down and the next record re-creates it
\* with a fresh open; no write is ever made through a handle that refers to
\* a file other than P's current path.
C33_NoWriteThroughStaleHandle == [][C33_Step]_vars

\* C37, one step: a close(project) or close_all() that finds every handle of
\* the sink already closed leaves every file as it is
C37_Step ==
    (/\ closes' = closes + 1
     /\ DOMAIN writers[TestWriter].handle # {}
     /\ \A p \in DOMAIN writers[TestWriter].handle :
           writers[TestWriter].handle[p].closed) =>
        disk' = disk

\* C37: closing is idempotent: after close(project) or close_all() the sink
\* keeps no handle for the closed projects, so a second close(project) or
\* close_all() leaves every file byte-for-byte unchanged, with exactly one
\* footer per file.
C37_CloseIdempotent == [][C37_Step]_vars

\* a rotation of p has fired: without any close, a file of p has a footer
RotationFired(p) ==
    /\ closes = 0
    /\ \E f \in LogFiles(disk, p) : CountKind(disk[f].content, "F") > 0

\* C40, one step: under the daily trigger, a write for a project whose
\* current file was opened by a rotation in the wall-clock minute of the
\* write does not rotate
C40_Step ==
    \A p \in Projects :
        (/\ writers[TestWriter].cfg.rotation.trigger = "daily"
         /\ WriteStep(p) /\ HasOpenFile(p)
         /\ RotationFired(p)
         /\ OpenedLocal(p) \div 60 = LocalNow \div 60) =>
            ~Footered(p)

\* C40: with the daily trigger, once a rotation has fired for a project,
\* further writes for it within the same wall-clock minute do not rotate
\* again, for every offset between the local clock read for the current
\* time and the UTC clock that stamps opened_at.
C40_DailyRotatesOncePerMinute == [][C40_Step]_vars


\* ---------------------------------------- properties: overlapping rotations
\* C36: when two rotations of one project overlap (the second starts its
\* sweep while the archival of the first still awaits the executor), every
\* rotated log file ends either still present in the project's directory or
\* deleted with a complete archive of its content: no archive whose source
\* is gone is truncated or incomplete, in a run without I/O errors.
C36_DeletedSourceHasCompleteArchive ==
    faults = 0 =>
        \A name \in DOMAIN archives :
            name.src \notin DOMAIN disk => archives[name].complete


\* ------------------------------------------ properties: the database sink
\* C34, one step: a model that database_models holds stays as it is, and
\* there have been as many generations as there are names with a model
C34_Step ==
    /\ \A p \in DOMAIN database_models :
          /\ p \in DOMAIN database_models'
          /\ database_models'[p] = database_models[p]
    /\ generated' = Cardinality(DOMAIN database_models')

\* C34: across any sequence of database writes and of sink re-creations
\* caused by reloads within one process, the table model of a project name
\* is generated at most once, and the memoized model is never replaced or
\* mutated afterwards.
C34_ModelGeneratedOnce == [][C34_Step]_vars

\* two deliveries of one project have called the database sink, one on the
\* sink of before a reload and one on the sink created by the reload
C34_Witness ==
    \E a \in DeliveryIds, b \in DeliveryIds :
        /\ "db" \in deliv[a].offered /\ "db" \in deliv[b].offered
        /\ deliv[a].client # deliv[b].client
        /\ msgs[deliv[a].msg].project = msgs[deliv[b].msg].project
        /\ generated = 1

\* C39: across any sequence of starts, reloads and stops, at most one
\* database client created by the consumer holds an open engine (connection
\* pool) at a time: the earlier sink is disconnected before it is dropped
\* in stop() or replaced in _init_clients.
C39_OneOpenDatabaseClient ==
    Cardinality({i \in DOMAIN db_clients : db_clients[i].engine}) <= 1


\* ---------------------------------------------- properties: the reload path
\* C35: every reload signal handled by the callback of the service queue is
\* eventually followed by a restart that reads the configuration after that
\* signal: no interleaving of the callback with start() and restart() loses
\* the request, also not a callback that runs after the subscription is
\* attached in _connect and before start() sets the flags. With one
\* PUT /config, the restart leaves the consumer with the document of the
\* signal.
C35_ReloadNeverLost ==
    (reload_data # NoData) ~> (config = reload_data)

\* a reload signal waits in the service queue
SignalQueued ==
    \E i \in 1..Len(service_queue) : IsReloadSignal(service_queue[i])

\* C38: whenever the consumer is running with no reload pending, the
\* configuration it uses is the config manager's current snapshot: every
\* snapshot that update_config accepted is followed by a reload of the
\* consumer, also when the publication of the control message fails.
C38_RunningUsesCurrentSnapshot ==
    (main.pc = "loop" /\ running /\ ~restart_requested /\ ~SignalQueued) =>
        config = manager_config

====
